---- MODULE Spec2Model ----
(***************************************************************************)
(* A model of msd-sdk-python (src/src/msd_sdk/core.py): signed Granules,   *)
(* signatures embedded in container files, and the dispatching verify().   *)
(*                                                                         *)
(* Python values are tagged records [py |-> <python type>, ...]; values of *)
(* the zef library are tagged records [t |-> <zef primary type>, ...].     *)
(* A mapping keeps its key set as the DOMAIN of its field m, so a missing  *)
(* key (KeyError) is a fact of the model.  A call returns Ok(v) or raises: *)
(* Raise("ValueError"), Raise("KeyError"), ...                             *)
(***************************************************************************)
EXTENDS Integers, Sequences, FiniteSets, TLC

VARIABLES clock, obj, prov, last, frame

vars == <<clock, obj, prov, last, frame>>

(***************************************************************************)
(* Bounds of the model.                                                    *)
(***************************************************************************)
MaxTime == 1    \* zef.now() returns 0..MaxTime
NumKeys == 2    \* key pairs 1..NumKeys
MaxSign == 2    \* successive sign_and_embed calls on one container

(***************************************************************************)
(* Call results.                                                           *)
(***************************************************************************)
Ok(v) == [status |-> "ok", val |-> <<v>>]
Raise(e) == [status |-> e, val |-> <<>>]
IsOk(r) == r.status = "ok"
Val(r) == r.val[1]

(***************************************************************************)
(* Python values.                                                          *)
(***************************************************************************)
PyStr(s) == [py |-> "str", s |-> s]
PyInt(s) == [py |-> "int", s |-> s]
PyBool(s) == [py |-> "bool", s |-> s]
PyNone == [py |-> "NoneType", s |-> ""]
PyDict(m) == [py |-> "dict", m |-> m]
PyList(l) == [py |-> "list", l |-> l]
PyBytes(c) == [py |-> "bytes", c |-> c]
EmptyMap == [k \in {} |-> PyNone]

(***************************************************************************)
(* zef values.                                                             *)
(***************************************************************************)
ZAtom(t, s) == [t |-> t, s |-> s]
ZStr(s) == ZAtom("String", s)
ZNil == ZAtom("Nil", "")
ZDict(m) == [t |-> "Dict", m |-> m]
ZArray(l) == [t |-> "Array", l |-> l]
ZTime(n) == [t |-> "Time", n |-> n]
ZBytes(b) == [t |-> "Bytes", b |-> b]
ZEntity(et, f) == [t |-> "Entity", et |-> et, f |-> f]
ZFile(t, c) == [t |-> t, c |-> c]

IsNative(v) == "py" \in DOMAIN v
IsDict(v) == IF IsNative(v) THEN v.py = "dict" ELSE v.t = "Dict"
HasKey(v, k) == IsDict(v) /\ k \in DOMAIN v.m
\* str(v) of a string value; any other value prints as something that is
\* none of the strings the code compares with.
StrOf(v) == IF "s" \in DOMAIN v /\ (IF IsNative(v) THEN v.py = "str" ELSE v.t = "String")
            THEN v.s ELSE "<repr>"
\* v[k] on a Python object: the error it raises, or "ok".
GetItemErr(v, k) ==
  IF ~IsDict(v) THEN "TypeError"
  ELSE IF k \notin DOMAIN v.m THEN "KeyError" ELSE "ok"

(***************************************************************************)
(* zef: conversions between Python values, zef values and the JSON-like    *)
(* form.  An entity or a Time is a zef value of its own; its JSON-like     *)
(* form is a mapping carrying the type under "__type".                     *)
(***************************************************************************)
EntityTypes == {"ET.SignedGranule", "ET.Ed25519KeyPair", "ET.Ed25519Signature"}

PyToZefType(p) ==
  CASE p = "str" -> "String"
    [] p = "int" -> "Int"
    [] p = "float" -> "Float"
    [] p = "bool" -> "Bool"
    [] p = "NoneType" -> "Nil"
    [] p = "bytes" -> "Bytes"
    [] OTHER -> "Unknown"

\* The same atom under another tag: every field but the tag is kept.
Retag(v, from, to, tag) ==
  [k \in (DOMAIN v \ {from}) \cup {to} |-> IF k = to THEN tag ELSE v[k]]

\* A Python value handed to a zef function becomes a zef value.
RECURSIVE ToZef(_)
ToZef(v) ==
  IF ~IsNative(v) THEN v
  ELSE IF v.py = "dict" THEN ZDict([k \in DOMAIN v.m |-> ToZef(v.m[k])])
  ELSE IF v.py = "list" THEN ZArray([i \in DOMAIN v.l |-> ToZef(v.l[i])])
  ELSE Retag(v, "py", "t", PyToZefType(v.py))

\* int(s) for the decimal strings of the clock's range.
ParseInt(s) == CHOOSE n \in 0..(MaxTime + 2) : ToString(n) = s

RECURSIVE from_json_like(_)
from_json_like(v) ==
  IF IsDict(v)
  THEN IF "__type" \in DOMAIN v.m /\ StrOf(v.m["__type"]) = "Time"
       THEN ZTime(ParseInt(StrOf(v.m["zef_unix_time"])))
       ELSE IF "__type" \in DOMAIN v.m /\ StrOf(v.m["__type"]) \in EntityTypes
       THEN ZEntity(StrOf(v.m["__type"]),
                    [k \in DOMAIN v.m \ {"__type"} |-> from_json_like(v.m[k])])
       ELSE ZDict([k \in DOMAIN v.m |-> from_json_like(v.m[k])])
  ELSE ToZef(v)

RECURSIVE to_json_like(_)
to_json_like(z) ==
  IF z.t = "Time"
  THEN ZDict("__type" :> ZStr("Time") @@ "zef_unix_time" :> ZStr(ToString(z.n)))
  ELSE IF z.t = "Entity"
  THEN ZDict(("__type" :> ZStr(z.et)) @@ [k \in DOMAIN z.f |-> to_json_like(z.f[k])])
  ELSE IF z.t = "Dict" THEN ZDict([k \in DOMAIN z.m |-> to_json_like(z.m[k])])
  ELSE IF z.t = "Array" THEN ZArray([i \in DOMAIN z.l |-> to_json_like(z.l[i])])
  ELSE z

to_bytes(z) == ZBytes(z)
bytes_to_zef_value(b) == b.b
remove(e, k) == ZEntity(e.et, [x \in DOMAIN e.f \ {k} |-> e.f[x]])
insert(e, k, v) == ZEntity(e.et, (k :> v) @@ e.f)

(***************************************************************************)
(* _to_native_python_hard: dispatch on the zef primary type, in the code's *)
(* order; a type outside the list raises ValueError.                       *)
(***************************************************************************)
NativeTypes == {"String", "Int", "Float", "Bool", "Nil", "Dict", "Array"}

RECURSIVE NativeOk(_)
NativeOk(z) ==
  /\ z.t \in NativeTypes
  /\ z.t = "Dict" => \A k \in DOMAIN z.m : NativeOk(z.m[k])
  /\ z.t = "Array" => \A i \in DOMAIN z.l : NativeOk(z.l[i])

RECURSIVE NativeOf(_)
NativeOf(z) ==
  IF z.t = "String" THEN Retag(z, "t", "py", "str")
  ELSE IF z.t = "Int" THEN Retag(z, "t", "py", "int")
  ELSE IF z.t = "Float" THEN Retag(z, "t", "py", "float")
  ELSE IF z.t = "Bool" THEN Retag(z, "t", "py", "bool")
  ELSE IF z.t = "Nil" THEN PyNone
  ELSE IF z.t = "Dict" THEN PyDict([k \in DOMAIN z.m |-> NativeOf(z.m[k])])
  ELSE PyList([i \in DOMAIN z.l |-> NativeOf(z.l[i])])

_to_native_python_hard(z) == IF NativeOk(z) THEN Ok(NativeOf(z)) ELSE Raise("ValueError")

\* d.get(k, default) on a native dict
DictGet(d, k, default) == IF k \in DOMAIN d.m THEN d.m[k] ELSE default

(***************************************************************************)
(* zef: Merkle hash and Ed25519, as ideal primitives.  A digest stands for *)
(* the canonical value it was computed from (no collisions); a signature   *)
(* string stands for the digest it signs and the public key it verifies    *)
(* under, with the three ways its text can be malformed.                   *)
(***************************************************************************)
PublicKeyOf(i) == "pk" \o ToString(i)
PrivateKeyOf(i) == "sk" \o ToString(i)
KeyUid(i) == "uid" \o ToString(i)
\* The public key an Ed25519 private key determines.
DerivePublic(sk) == PublicKeyOf(CHOOSE i \in 1..(NumKeys + 1) : PrivateKeyOf(i) = sk)

merkle_hash(z) == [tag |-> z.t, digest |-> z]

ed25519_sign(h, sk) ==
  [marker |-> TRUE, hex |-> TRUE, full |-> TRUE, msg |-> h, by |-> DerivePublic(sk)]

ed25519_verify(h, sig, pk) ==
  /\ sig.marker /\ sig.hex /\ sig.full
  /\ sig.msg = h
  /\ sig.by = pk

SigString(sig) == [t |-> "String", sig |-> sig]

GranuleHash(data, metadata, time) ==
  merkle_hash(ZDict("data" :> data @@ "metadata" :> metadata @@ "signature_time" :> time))

create_signed_granule(data, metadata, timestamp, key_internal) ==
  LET d == ToZef(data)
      m == ToZef(metadata)
      sig == ed25519_sign(GranuleHash(d, m, timestamp), key_internal.f["private_key"].s)
  IN ZEntity("ET.SignedGranule",
       "data" :> d @@ "metadata" :> m @@ "signature_time" :> timestamp
       @@ "signature" :> ZEntity("ET.Ed25519Signature", "signature" :> SigString(sig))
       @@ "key" :> ZEntity("ET.Ed25519KeyPair",
                     [k \in {"__uid", "public_key"} |-> key_internal.f[k]]))

verify_granite_signature(g) ==
  LET sigstr == g.f["signature"].f["signature"]
  IN /\ "sig" \in DOMAIN sigstr
     /\ ed25519_verify(GranuleHash(g.f["data"], g.f["metadata"], g.f["signature_time"]),
                       sigstr.sig, StrOf(g.f["key"].f["public_key"]))

(***************************************************************************)
(* zef: container files.  The bytes of a container are its payload, the    *)
(* extra metadata an encoder may drop when it rewrites the file, and the   *)
(* auxiliary region holding the embedded chunks (emb, empty when nothing   *)
(* is embedded).  embed_data writes one more chunk; extract_embedded_data  *)
(* returns the first chunk it finds; strip_embedded_data removes them all. *)
(***************************************************************************)
Content(p, x, e) == [payload |-> p, extra |-> x, emb |-> e]

\* Formats whose strip rewrites the file and drops extra metadata.
Normalizes(t) == t = "PngImage"

strip_embedded_data(tf) ==
  ZFile(tf.t, Content(tf.c.payload, IF Normalizes(tf.t) THEN FALSE ELSE tf.c.extra, <<>>))

embed_data(tf, bytes) == ZFile(tf.t, [tf.c EXCEPT !.emb = Append(@, bytes)])

extract_embedded_data(tf) == IF tf.c.emb = <<>> THEN ZNil ELSE tf.c.emb[1]

(***************************************************************************)
(* core.py                                                                 *)
(***************************************************************************)
now(t) == ZTime(t)

\* Mutant: the emitted signature_time is read from the clock again, after
\* the signature was made.
create_granule_restamped(data, metadata, key, t) ==
  LET key_internal == from_json_like(key)
      granule_internal == create_signed_granule(data, metadata, now(t), key_internal)
  IN Ok(to_json_like(insert(granule_internal, "signature_time", now(t + 1))))

\* Mutant: the caller's key pair is put back as the granule's key.
create_granule_callerkey(data, metadata, key, t) ==
  LET key_internal == from_json_like(key)
      granule_internal == create_signed_granule(data, metadata, now(t), key_internal)
  IN Ok(to_json_like(insert(granule_internal, "key", key_internal)))

create_granule(data, metadata, key, t) ==
  LET timestamp == now(t)
      key_internal == from_json_like(key)
      granule_internal == create_signed_granule(data, metadata, timestamp, key_internal)
  IN Ok(to_json_like(granule_internal))

\* Mutant: bool() of the parsed granule, not of the verification result.
_verify_granule_truthy(granule) == Ok(TRUE)

\* Mutant: a signature text that does not parse is reported as an error.
_verify_granule_raising(granule) ==
  LET granule_internal == from_json_like(granule)
      sig == granule_internal.f["signature"].f["signature"].sig
  IN IF ~(sig.marker /\ sig.hex /\ sig.full) THEN Raise("ValueError")
     ELSE Ok(verify_granite_signature(granule_internal))

\* Mutant: the key's endorsement is looked up first, and is_endorsed raises.
_verify_granule_endorsed(granule) == Raise("NotImplementedError")

_verify_granule(granule) ==
  LET granule_internal == from_json_like(granule)
  IN Ok(verify_granite_signature(granule_internal))

SupportedTypes ==
  {"png", "jpg", "pdf", "word_document", "excel_document", "powerpoint_document"}

ZefFileType(ty) ==
  CASE ty = "png" -> "PngImage"
    [] ty = "jpg" -> "JpgImage"
    [] ty = "pdf" -> "PDF"
    [] ty = "word_document" -> "ET.WordDocument"
    [] ty = "excel_document" -> "ET.ExcelDocument"
    [] ty = "powerpoint_document" -> "ET.PowerpointDocument"

\* The match statement every file operation opens with: data['type'] is
\* looked up first, data['content'] inside the matching case.
MatchFileType(data) ==
  IF GetItemErr(data, "type") # "ok" THEN Raise(GetItemErr(data, "type"))
  ELSE IF StrOf(data.m["type"]) \notin SupportedTypes THEN Raise("ValueError")
  ELSE IF "content" \notin DOMAIN data.m THEN Raise("KeyError")
  ELSE Ok(ZFile(ZefFileType(StrOf(data.m["type"])), data.m["content"].c))

_parse_to_zef_type(data) == MatchFileType(data)

\* The closing match: the file dict of a typed file.
FileDict(ty, tf) == PyDict("type" :> PyStr(ty) @@ "content" :> PyBytes(tf.c))

\* Mutant: bool() of the rebuilt granule, not of the verification result.
_verify_file_truthy(signed_data) ==
  LET typed_file == _parse_to_zef_type(signed_data)
  IN IF ~IsOk(typed_file) THEN typed_file
     ELSE IF extract_embedded_data(Val(typed_file)) = ZNil THEN Raise("ValueError")
     ELSE Ok(TRUE)

_verify_file(signed_data) ==
  LET typed_file == _parse_to_zef_type(signed_data)
  IN IF ~IsOk(typed_file) THEN typed_file
     ELSE LET embedded_bytes == extract_embedded_data(Val(typed_file))
          IN IF embedded_bytes = ZNil THEN Raise("ValueError")
             ELSE LET granule_without_data == bytes_to_zef_value(embedded_bytes)
                      clean_file == strip_embedded_data(Val(typed_file))
                      complete_granule == insert(granule_without_data, "data", clean_file)
                  IN Ok(verify_granite_signature(complete_granule))

\* Mutant: the file shape is probed before the '__type' tag.
verify_filefirst(data) ==
  LET type_field == IF GetItemErr(data, "__type") = "ok"
                    THEN StrOf(data.m["__type"]) ELSE "<None>"
      has_type == GetItemErr(data, "type") = "ok"
      has_content == GetItemErr(data, "content") = "ok"
  IN IF has_type /\ has_content THEN _verify_file(data)
     ELSE IF type_field = "ET.SignedGranule" THEN _verify_granule(data)
     ELSE IF IsDict(data) THEN Raise("ValueError")
     ELSE Raise("AttributeError")

\* Mutant: a mapping that carries '__msd' is taken as a third shape.
verify_msd(data) ==
  LET type_field == IF GetItemErr(data, "__type") = "ok"
                    THEN StrOf(data.m["__type"]) ELSE "<None>"
      has_type == GetItemErr(data, "type") = "ok"
      has_content == GetItemErr(data, "content") = "ok"
  IN IF type_field = "ET.SignedGranule" THEN _verify_granule(data)
     ELSE IF has_type /\ has_content THEN _verify_file(data)
     ELSE IF GetItemErr(data, "__msd") = "ok" THEN Ok(TRUE)
     ELSE IF IsDict(data) THEN Raise("ValueError")
     ELSE Raise("AttributeError")

verify(data) ==
  LET type_field == IF GetItemErr(data, "__type") = "ok"
                    THEN StrOf(data.m["__type"]) ELSE "<None>"
      has_type == GetItemErr(data, "type") = "ok"
      has_content == GetItemErr(data, "content") = "ok"
  IN IF type_field = "ET.SignedGranule" THEN _verify_granule(data)
     ELSE IF has_type /\ has_content THEN _verify_file(data)
     ELSE IF IsDict(data) THEN Raise("ValueError")
     ELSE Raise("AttributeError")

\* Mutant: the strip of existing embedded data before signing is left out.
sign_and_embed_nostrip(data, metadata, key, t) ==
  LET typed == MatchFileType(data)
  IN IF ~IsOk(typed) THEN typed
     ELSE LET data_ == Val(typed)
              key_internal == from_json_like(key)
              binary_data_to_embed ==
                to_bytes(remove(create_signed_granule(data_, metadata, now(t), key_internal),
                                "data"))
          IN Ok(FileDict(StrOf(data.m["type"]), embed_data(data_, binary_data_to_embed)))

\* Mutant: the whole granule is embedded, 'data' included.
sign_and_embed_withdata(data, metadata, key, t) ==
  LET typed == MatchFileType(data)
  IN IF ~IsOk(typed) THEN typed
     ELSE LET data_ == strip_embedded_data(Val(typed))
              key_internal == from_json_like(key)
              binary_data_to_embed ==
                to_bytes(create_signed_granule(data_, metadata, now(t), key_internal))
          IN Ok(FileDict(StrOf(data.m["type"]), embed_data(data_, binary_data_to_embed)))

sign_and_embed(data, metadata, key, t) ==
  LET typed == MatchFileType(data)
  IN IF ~IsOk(typed) THEN typed
     ELSE LET data_ == strip_embedded_data(Val(typed))
              timestamp == now(t)
              key_internal == from_json_like(key)
              binary_data_to_embed ==
                to_bytes(remove(create_signed_granule(data_, metadata, timestamp, key_internal),
                                "data"))
              signed == embed_data(data_, binary_data_to_embed)
          IN Ok(FileDict(StrOf(data.m["type"]), signed))

\* Mutant: the typed file is returned, not the stripped one.
strip_metadata_and_signature_unstripped(signed_data) ==
  LET typed == MatchFileType(signed_data)
  IN IF ~IsOk(typed) THEN typed
     ELSE Ok(FileDict(StrOf(signed_data.m["type"]), Val(typed)))

\* Mutant: a file with nothing embedded is refused, as extraction refuses it.
strip_metadata_and_signature_refusing(signed_data) ==
  LET typed == MatchFileType(signed_data)
  IN IF ~IsOk(typed) THEN typed
     ELSE IF extract_embedded_data(Val(typed)) = ZNil THEN Raise("ValueError")
     ELSE Ok(FileDict(StrOf(signed_data.m["type"]), strip_embedded_data(Val(typed))))

strip_metadata_and_signature(signed_data) ==
  LET typed == MatchFileType(signed_data)
  IN IF ~IsOk(typed) THEN typed
     ELSE Ok(FileDict(StrOf(signed_data.m["type"]), strip_embedded_data(Val(typed))))

(***************************************************************************)
(* zef: the text codec of sign_and_embed_dict.  Each stage wraps its input *)
(* and the inverse stage unwraps exactly that wrapping.                    *)
(***************************************************************************)
zstd_compress(b) ==
  ZEntity("ET.ZstdCompressed", "compressed_bytes" :> [t |-> "Bytes", z |-> b])
zstd_decompress(e) == e.f["compressed_bytes"].z
to_base64(cb) == [t |-> "String", b64 |-> cb]
base64_to_bytes(x) == x.b64
encode_secret_string_in_emoji(x, glyph) == [t |-> "String", glyph |-> glyph, hidden |-> x]
decode_secret_string_in_emoji(x) == x.hidden
\* Text a decoder stage accepts.
IsStegoText(v) ==
  /\ "hidden" \in DOMAIN v
  /\ "b64" \in DOMAIN v.hidden
  /\ "z" \in DOMAIN v.hidden.b64

\* Mutant: a mapping that already has '__msd' is signed again and the key
\* overwritten.
sign_and_embed_dict_overwriting(data, metadata, key, t) ==
  IF ~(IsNative(data) /\ data.py = "dict") THEN Raise("ValueError")
  ELSE IF ~(IsNative(metadata) /\ metadata.py = "dict") THEN Raise("ValueError")
  ELSE LET granule == create_signed_granule(data, metadata, now(t), from_json_like(key))
           sig_and_metadata ==
             ZDict([k \in {"metadata", "signature_time", "signature", "key"} |-> granule.f[k]])
           compressed == zstd_compress(to_bytes(sig_and_metadata))
           encoded == encode_secret_string_in_emoji(to_base64(compressed.f["compressed_bytes"]),
                                                    "lock")
       IN Ok(PyDict(("__msd" :> Retag(encoded, "t", "py", "str")) @@ data.m))

\* Mutant: the result holds '__msd' only, the input's entries are not copied.
sign_and_embed_dict_bare(data, metadata, key, t) ==
  IF ~(IsNative(data) /\ data.py = "dict") THEN Raise("ValueError")
  ELSE IF "__msd" \in DOMAIN data.m THEN Raise("ValueError")
  ELSE IF ~(IsNative(metadata) /\ metadata.py = "dict") THEN Raise("ValueError")
  ELSE LET granule == create_signed_granule(data, metadata, now(t), from_json_like(key))
           sig_and_metadata ==
             ZDict([k \in {"metadata", "signature_time", "signature", "key"} |-> granule.f[k]])
           compressed == zstd_compress(to_bytes(sig_and_metadata))
           encoded == encode_secret_string_in_emoji(to_base64(compressed.f["compressed_bytes"]),
                                                    "lock")
       IN Ok(PyDict("__msd" :> Retag(encoded, "t", "py", "str")))

\* Mutant: 'metadata' is left out of the serialised fields.
sign_and_embed_dict_nometa(data, metadata, key, t) ==
  IF ~(IsNative(data) /\ data.py = "dict") THEN Raise("ValueError")
  ELSE IF "__msd" \in DOMAIN data.m THEN Raise("ValueError")
  ELSE IF ~(IsNative(metadata) /\ metadata.py = "dict") THEN Raise("ValueError")
  ELSE LET granule == create_signed_granule(data, metadata, now(t), from_json_like(key))
           sig_and_metadata ==
             ZDict([k \in {"signature_time", "signature", "key"} |-> granule.f[k]])
           compressed == zstd_compress(to_bytes(sig_and_metadata))
           encoded == encode_secret_string_in_emoji(to_base64(compressed.f["compressed_bytes"]),
                                                    "lock")
       IN Ok(PyDict(("__msd" :> Retag(encoded, "t", "py", "str")) @@ data.m))

\* Mutant: the signature is made over the mapping with an empty '__msd'
\* entry already in place.
sign_and_embed_dict_placeholder(data, metadata, key, t) ==
  IF ~(IsNative(data) /\ data.py = "dict") THEN Raise("ValueError")
  ELSE IF "__msd" \in DOMAIN data.m THEN Raise("ValueError")
  ELSE IF ~(IsNative(metadata) /\ metadata.py = "dict") THEN Raise("ValueError")
  ELSE LET granule == create_signed_granule(PyDict(("__msd" :> PyStr("")) @@ data.m), metadata,
                                            now(t), from_json_like(key))
           sig_and_metadata ==
             ZDict([k \in {"metadata", "signature_time", "signature", "key"} |-> granule.f[k]])
           compressed == zstd_compress(to_bytes(sig_and_metadata))
           encoded == encode_secret_string_in_emoji(to_base64(compressed.f["compressed_bytes"]),
                                                    "lock")
       IN Ok(PyDict(("__msd" :> Retag(encoded, "t", "py", "str")) @@ data.m))

sign_and_embed_dict(data, metadata, key, t) ==
  IF ~(IsNative(data) /\ data.py = "dict") THEN Raise("ValueError")
  ELSE IF "__msd" \in DOMAIN data.m THEN Raise("ValueError")
  ELSE IF ~(IsNative(metadata) /\ metadata.py = "dict") THEN Raise("ValueError")
  ELSE LET timestamp == now(t)
           key_internal == from_json_like(key)
           granule == create_signed_granule(data, metadata, timestamp, key_internal)
           sig_and_metadata ==
             ZDict([k \in {"metadata", "signature_time", "signature", "key"} |-> granule.f[k]])
           sig_and_metadata_bytes == to_bytes(sig_and_metadata)
           compressed == zstd_compress(sig_and_metadata_bytes)
           b64 == to_base64(compressed.f["compressed_bytes"])
           encoded == encode_secret_string_in_emoji(b64, "lock")
       IN Ok(PyDict(("__msd" :> Retag(encoded, "t", "py", "str")) @@ data.m))

_extract_msd_from_dict(signed_dict_data) ==
  IF "__msd" \notin DOMAIN signed_dict_data.m THEN Raise("ValueError")
  ELSE LET emoji_str == signed_dict_data.m["__msd"]
       IN IF ~IsStegoText(emoji_str) THEN Raise("DecodeError")
          ELSE _to_native_python_hard(
                 to_json_like(
                   bytes_to_zef_value(
                     zstd_decompress(
                       insert(ZEntity("ET.ZstdCompressed", <<>>), "compressed_bytes",
                              base64_to_bytes(decode_secret_string_in_emoji(emoji_str)))))))

\* Mutant: a file with nothing embedded gets an error kind of its own.
ExtractEmbedded_lookup(signed_data) ==
  LET typed == MatchFileType(signed_data)
  IN IF ~IsOk(typed) THEN typed
     ELSE LET embedded_bytes == extract_embedded_data(Val(typed))
          IN IF embedded_bytes = ZNil THEN Raise("LookupError")
             ELSE _to_native_python_hard(to_json_like(bytes_to_zef_value(embedded_bytes)))

\* The embedded granule of a file dict as a native dict: the part that
\* extract_metadata and extract_signature share.
ExtractEmbedded(signed_data) ==
  LET typed == MatchFileType(signed_data)
  IN IF ~IsOk(typed) THEN typed
     ELSE LET embedded_bytes == extract_embedded_data(Val(typed))
          IN IF embedded_bytes = ZNil THEN Raise("ValueError")
             ELSE _to_native_python_hard(to_json_like(bytes_to_zef_value(embedded_bytes)))

\* The message of the ValueError a file operation raises on a file dict:
\* verify goes through _parse_to_zef_type and _verify_file, the others
\* carry their own match and check.
ValueErrorText(op, signed_data) ==
  IF op = "verify"
  THEN IF ~IsOk(_parse_to_zef_type(signed_data)) THEN "Unsupported file type: "
       ELSE "No embedded MSD signature found in this file"
  ELSE IF ~IsOk(MatchFileType(signed_data)) THEN "Unsupported type: "
       ELSE "No embedded signature data found in this file"

SignatureFields(d) ==
  PyDict([k \in {"signature", "signature_time", "key"} |-> DictGet(d, k, PyNone)])

\* Mutant: the key read from the extracted dict is misspelt, and the
\* default of .get() hides it.
extract_metadata_misspelt(signed_data) ==
  IF ~IsDict(signed_data) THEN Raise("TypeError")
  ELSE IF "__msd" \in DOMAIN signed_data.m
  THEN LET msd_data == _extract_msd_from_dict(signed_data)
       IN IF ~IsOk(msd_data) THEN msd_data
          ELSE Ok(DictGet(Val(msd_data), "meta_data", PyDict(EmptyMap)))
  ELSE LET py_dict == ExtractEmbedded(signed_data)
       IN IF ~IsOk(py_dict) THEN py_dict
          ELSE Ok(DictGet(Val(py_dict), "meta_data", PyDict(EmptyMap)))

extract_metadata(signed_data) ==
  IF ~IsDict(signed_data) THEN Raise("TypeError")
  ELSE IF "__msd" \in DOMAIN signed_data.m
  THEN LET msd_data == _extract_msd_from_dict(signed_data)
       IN IF ~IsOk(msd_data) THEN msd_data
          ELSE Ok(DictGet(Val(msd_data), "metadata", PyDict(EmptyMap)))
  ELSE LET py_dict == ExtractEmbedded(signed_data)
       IN IF ~IsOk(py_dict) THEN py_dict
          ELSE Ok(DictGet(Val(py_dict), "metadata", PyDict(EmptyMap)))

extract_signature(signed_data) ==
  IF ~IsDict(signed_data) THEN Raise("TypeError")
  ELSE IF "__msd" \in DOMAIN signed_data.m
  THEN LET msd_data == _extract_msd_from_dict(signed_data)
       IN IF ~IsOk(msd_data) THEN msd_data
          ELSE Ok(SignatureFields(Val(msd_data)))
  ELSE LET py_dict == ExtractEmbedded(signed_data)
       IN IF ~IsOk(py_dict) THEN py_dict
          ELSE Ok(SignatureFields(Val(py_dict)))

(***************************************************************************)
(* The zef operations each function reaches, in the order of its body; a   *)
(* function that raises reaches none of the operations after the raise.    *)
(***************************************************************************)
create_granule_calls(data) ==
  <<"now", "from_json_like", "create_signed_granule", "to_json_like">>

\* Mutant: the format is looked at by the closing match only.
sign_and_embed_calls_late(data) ==
  IF GetItemErr(data, "type") # "ok" THEN <<>>
  ELSE <<"strip_embedded_data", "now", "from_json_like", "create_signed_granule",
         "remove", "to_bytes", "embed_data">>

sign_and_embed_calls(data) ==
  IF ~IsOk(MatchFileType(data)) THEN <<>>
  ELSE <<"strip_embedded_data", "now", "from_json_like", "create_signed_granule",
         "remove", "to_bytes", "embed_data">>

strip_metadata_and_signature_calls(signed_data) ==
  IF ~IsOk(MatchFileType(signed_data)) THEN <<>> ELSE <<"strip_embedded_data">>

sign_and_embed_dict_calls(data, metadata) ==
  IF ~(IsNative(data) /\ data.py = "dict") THEN <<>>
  ELSE IF "__msd" \in DOMAIN data.m THEN <<>>
  ELSE IF ~(IsNative(metadata) /\ metadata.py = "dict") THEN <<>>
  ELSE <<"now", "from_json_like", "create_signed_granule", "to_bytes", "zstd_compress",
         "to_base64", "encode_secret_string_in_emoji">>

_extract_msd_from_dict_calls(signed_dict_data) ==
  IF "__msd" \notin DOMAIN signed_dict_data.m THEN <<>>
  ELSE IF ~IsStegoText(signed_dict_data.m["__msd"]) THEN <<"decode_secret_string_in_emoji">>
  ELSE <<"decode_secret_string_in_emoji", "base64_to_bytes", "insert_into", "zstd_decompress",
         "bytes_to_zef_value", "to_json_like">>

\* extract_metadata and extract_signature reach the same operations.
extract_calls(signed_data) ==
  IF ~IsDict(signed_data) THEN <<>>
  ELSE IF "__msd" \in DOMAIN signed_data.m THEN _extract_msd_from_dict_calls(signed_data)
  ELSE IF ~IsOk(MatchFileType(signed_data)) THEN <<>>
  ELSE IF extract_embedded_data(Val(MatchFileType(signed_data))) = ZNil
  THEN <<"extract_embedded_data">>
  ELSE <<"extract_embedded_data", "bytes_to_zef_value", "to_json_like">>

_verify_file_calls(signed_data) ==
  IF ~IsOk(_parse_to_zef_type(signed_data)) THEN <<>>
  ELSE IF extract_embedded_data(Val(_parse_to_zef_type(signed_data))) = ZNil
  THEN <<"extract_embedded_data">>
  ELSE <<"extract_embedded_data", "bytes_to_zef_value", "strip_embedded_data", "insert",
         "verify_granite_signature">>

verify_calls(data) ==
  IF GetItemErr(data, "__type") = "ok" /\ StrOf(data.m["__type"]) = "ET.SignedGranule"
  THEN <<"from_json_like", "verify_granite_signature">>
  ELSE IF GetItemErr(data, "type") = "ok" /\ GetItemErr(data, "content") = "ok"
  THEN _verify_file_calls(data)
  ELSE <<>>

\* Mutant: '__msd' is written into the caller's mapping, which is returned.
sign_and_embed_dict_input_after_inplace(data, metadata, key, t) ==
  IF IsOk(sign_and_embed_dict(data, metadata, key, t))
  THEN Val(sign_and_embed_dict(data, metadata, key, t)) ELSE data

\* The caller's mapping after sign_and_embed_dict returned: the result is
\* a new dict built from **data, the input is not written to.
sign_and_embed_dict_input_after(data, metadata, key, t) == data

(***************************************************************************)
(* The inputs a caller supplies.                                           *)
(***************************************************************************)
KeyPair(i) ==
  PyDict("__type" :> PyStr("ET.Ed25519KeyPair") @@ "__uid" :> PyStr(KeyUid(i))
         @@ "private_key" :> PyStr(PrivateKeyOf(i)) @@ "public_key" :> PyStr(PublicKeyOf(i)))
KeyIds == 1..NumKeys

Metas ==
  { PyDict(EmptyMap),
    PyDict("author" :> PyStr("alice") @@ "confidential" :> PyBool("True")) }

DataVals ==
  { PyStr("Hello"), PyInt("42"), PyNone, PyDict("message" :> PyStr("Hello")) }

Payloads == {"A", "B"}
FileTypes == SupportedTypes \cup {"gif"}

\* A container no signature was ever embedded in.
RawFile(ty, p, x) ==
  PyDict("type" :> PyStr(ty) @@ "content" :> PyBytes(Content(p, x, <<>>)))
RawFiles == { RawFile(ty, "A", x) : ty \in FileTypes, x \in BOOLEAN }

PlainMaps ==
  { PyDict(EmptyMap),
    PyDict("name" :> PyStr("x")),
    PyDict("type" :> PyStr("png")),
    PyDict("type" :> PyStr("gif")),
    PyDict("content" :> PyBytes(Content("A", FALSE, <<>>))),
    PyDict("__type" :> PyStr("ET.Ed25519KeyPair")) }

\* Objects that are no mappings.
NonMappings == { PyNone, PyList(<<>>), PyStr("granule") }

Inputs == RawFiles \cup PlainMaps \cup NonMappings

TimeJson(n) == PyDict("__type" :> PyStr("Time") @@ "zef_unix_time" :> PyStr(ToString(n)))

(***************************************************************************)
(* State.  obj is the object the caller holds; prov records how it came    *)
(* about (the inputs of the call that made it); last is the latest call    *)
(* on obj and its result.                                                  *)
(***************************************************************************)
RawProv(o) ==
  [how |-> "raw", base |-> o, input |-> o, meta |-> PyNone, key |-> 0,
   meta0 |-> PyNone, n |-> 0, reloaded |-> FALSE, field |-> ""]

NoCall == [op |-> "none", res |-> Raise("none")]
\* The argument of the latest call, the zef operations the call reached, and
\* the caller's argument object after the call.
Frame(arg, zef, after) == [arg |-> arg, zef |-> zef, after |-> after]
NoFrame == Frame(PyNone, <<>>, PyNone)
Call(op, r) == [op |-> op, res |-> r]

\* zef.now() never runs backwards: a call reads a time t >= clock.
Times == 0..MaxTime

InitGranule ==
  /\ clock = 0
  /\ obj = PyNone
  /\ prov = RawProv(PyNone)
  /\ last = NoCall
  /\ frame = NoFrame

InitFile ==
  /\ clock = 0
  /\ obj \in Inputs
  /\ prov = RawProv(obj)
  /\ last = NoCall
  /\ frame = NoFrame

Init == InitGranule \/ InitFile

CreateGranule(d, m, i, t) ==
  LET r == create_granule(d, m, KeyPair(i), t)
  IN /\ t >= clock
     /\ clock' = t
     /\ obj' = Val(r)
     /\ prov' = [RawProv(d) EXCEPT !.how = "created", !.meta = m, !.key = i]
     /\ last' = Call("create_granule", r)
     /\ frame' = Frame(d, create_granule_calls(d), d)

\* A holder of a Granule replaces one of its signed fields by another value.
MutateGranule(field, v) ==
  /\ prov.how = "created"
  /\ \/ /\ field = "data"
        /\ v \in DataVals /\ v # NativeOf(obj.m["data"])
        /\ obj' = [obj EXCEPT !.m["data"] = v]
     \/ /\ field = "metadata"
        /\ v \in Metas /\ v # NativeOf(obj.m["metadata"])
        /\ obj' = [obj EXCEPT !.m["metadata"] = v]
     \/ /\ field = "signature_time"
        /\ v \in {TimeJson(n) : n \in 0..(MaxTime + 1)}
        /\ v # NativeOf(obj.m["signature_time"])
        /\ obj' = [obj EXCEPT !.m["signature_time"] = v]
     \/ /\ field = "public_key"
        /\ v \in {PyStr(PublicKeyOf(i)) : i \in KeyIds} \cup {PyStr("garbage")}
        /\ v # NativeOf(obj.m["key"].m["public_key"])
        /\ obj' = [obj EXCEPT !.m["key"].m["public_key"] = v]
  /\ prov' = [prov EXCEPT !.how = "mutated", !.field = field]
  /\ last' = NoCall
  /\ frame' = NoFrame
  /\ UNCHANGED clock

\* The signature text of a Granule is damaged: the marker is dropped, a
\* character is no hex digit, or the text is cut short.
MalformSignature(kind) ==
  /\ prov.how = "created"
  /\ kind \in {"marker", "hex", "full"}
  /\ obj' = [obj EXCEPT !.m["signature"].m["signature"].sig[kind] = FALSE]
  /\ prov' = [prov EXCEPT !.how = "badsig", !.field = kind]
  /\ last' = NoCall
  /\ frame' = NoFrame
  /\ UNCHANGED clock

SignAndEmbed(m, i, t) ==
  LET r == sign_and_embed(obj, m, KeyPair(i), t)
  IN /\ prov.how \in {"raw", "signed"}
     /\ prov.n < MaxSign
     /\ t >= clock
     /\ last' = Call("sign_and_embed", r)
     /\ frame' = Frame(obj, sign_and_embed_calls(obj), obj)
     /\ IF IsOk(r)
        THEN /\ clock' = t
             /\ obj' = Val(r)
             /\ prov' = [prov EXCEPT !.how = "signed", !.input = obj, !.meta = m, !.key = i,
                                     !.meta0 = prov.meta, !.n = prov.n + 1,
                                     !.reloaded = FALSE]
        ELSE UNCHANGED <<clock, obj, prov>>

\* The signed bytes are written to a file, read back, and a file dict is
\* built from them (examples/sign_and_embed_example.py).
SaveReload ==
  /\ prov.how = "signed"
  /\ ~prov.reloaded
  /\ obj' = PyDict("type" :> obj.m["type"] @@ "content" :> PyBytes(obj.m["content"].c))
  /\ prov' = [prov EXCEPT !.reloaded = TRUE]
  /\ last' = NoCall
  /\ frame' = NoFrame
  /\ UNCHANGED clock

\* A holder of a signed container alters its bytes outside the auxiliary
\* region: the payload, or the extra metadata.
TamperPayload(p) ==
  /\ prov.how = "signed"
  /\ p \in Payloads /\ p # obj.m["content"].c.payload
  /\ obj' = [obj EXCEPT !.m["content"].c.payload = p]
  /\ prov' = [prov EXCEPT !.how = "tampered", !.field = "payload"]
  /\ last' = NoCall
  /\ frame' = NoFrame
  /\ UNCHANGED clock

TamperExtra ==
  /\ prov.how = "signed"
  /\ obj' = [obj EXCEPT !.m["content"].c.extra = ~@]
  /\ prov' = [prov EXCEPT !.how = "tampered", !.field = "extra"]
  /\ last' = NoCall
  /\ frame' = NoFrame
  /\ UNCHANGED clock

SignAndEmbedDict(m, i, t) ==
  LET r == sign_and_embed_dict(obj, m, KeyPair(i), t)
  IN /\ prov.how \in {"raw", "dictsigned"}
     /\ t >= clock
     /\ last' = Call("sign_and_embed_dict", r)
     /\ frame' = Frame(obj, sign_and_embed_dict_calls(obj, m),
                       sign_and_embed_dict_input_after(obj, m, KeyPair(i), t))
     /\ IF IsOk(r)
        THEN /\ clock' = t
             /\ obj' = Val(r)
             /\ prov' = [prov EXCEPT !.how = "dictsigned", !.input = obj, !.meta = m,
                                     !.key = i, !.n = prov.n + 1]
        ELSE UNCHANGED <<clock, obj, prov>>

Verify ==
  /\ last' = Call("verify", verify(obj))
  /\ frame' = Frame(obj, verify_calls(obj), obj)
  /\ UNCHANGED <<clock, obj, prov>>

ExtractMetadata ==
  /\ last' = Call("extract_metadata", extract_metadata(obj))
  /\ frame' = Frame(obj, extract_calls(obj), obj)
  /\ UNCHANGED <<clock, obj, prov>>

ExtractSignature ==
  /\ last' = Call("extract_signature", extract_signature(obj))
  /\ frame' = Frame(obj, extract_calls(obj), obj)
  /\ UNCHANGED <<clock, obj, prov>>

Strip ==
  /\ last' = Call("strip_metadata_and_signature", strip_metadata_and_signature(obj))
  /\ frame' = Frame(obj, strip_metadata_and_signature_calls(obj), obj)
  /\ UNCHANGED <<clock, obj, prov>>

MutationValues ==
  DataVals \cup Metas \cup {TimeJson(n) : n \in 0..(MaxTime + 1)}
  \cup {PyStr(PublicKeyOf(i)) : i \in KeyIds} \cup {PyStr("garbage")}

NextGranule ==
  \/ \E d \in DataVals, m \in Metas, i \in KeyIds, t \in Times : CreateGranule(d, m, i, t)
  \/ \E f \in {"data", "metadata", "signature_time", "public_key"} :
       \E v \in MutationValues : MutateGranule(f, v)
  \/ \E kind \in {"marker", "hex", "full"} : MalformSignature(kind)
  \/ Verify

NextFile ==
  \/ \E m \in Metas, i \in KeyIds, t \in Times : SignAndEmbed(m, i, t)
  \/ SaveReload
  \/ \E p \in Payloads : TamperPayload(p)
  \/ TamperExtra
  \/ \E m \in Metas, i \in KeyIds, t \in Times : SignAndEmbedDict(m, i, t)
  \/ Verify
  \/ ExtractMetadata
  \/ ExtractSignature
  \/ Strip

Next == NextGranule \/ NextFile

Spec == Init /\ [][Next]_vars
\* A caller working with Granules only.
SpecGranule == InitGranule /\ [][NextGranule]_vars
\* A caller working with container files and mappings.
SpecFile == InitFile /\ [][NextFile]_vars

\* A caller that signs a value, a container or a mapping and reads the
\* signature back.
InitOutputs ==
  /\ clock = 0
  /\ obj \in {PyNone, RawFile("png", "A", TRUE), RawFile("pdf", "A", FALSE),
              PyDict("name" :> PyStr("x"))}
  /\ prov = RawProv(obj)
  /\ last = NoCall
  /\ frame = NoFrame

NextOutputs ==
  \/ \E d \in DataVals, m \in Metas, i \in KeyIds, t \in Times :
       prov.how = "raw" /\ obj = PyNone /\ CreateGranule(d, m, i, t)
  \/ \E m \in Metas, i \in KeyIds, t \in Times : SignAndEmbed(m, i, t)
  \/ \E m \in Metas, i \in KeyIds, t \in Times : SignAndEmbedDict(m, i, t)
  \/ ExtractSignature
  \/ Verify

SpecOutputs == InitOutputs /\ [][NextOutputs]_vars

(***************************************************************************)
(* content_hash.  The values it is given are Python values as written: a   *)
(* dict keeps its entries in insertion order (kv, a sequence of key-value  *)
(* pairs with distinct keys).  A Hash Value is the type tag with the       *)
(* digest; the digest of a leaf stands for its canonical bytes, that of an *)
(* aggregate for the digests of its constituents in canonical order.       *)
(***************************************************************************)
PyFloat(s) == [py |-> "float", s |-> s]
PyOrderedDict(kv) == [py |-> "dict", kv |-> kv]

\* The keys of the model in the order of their canonical bytes.
KeyOrder == <<"a", "b", "n", "outer">>
KeyRank(k) == CHOOSE i \in DOMAIN KeyOrder : KeyOrder[i] = k
Perms(n) == {p \in [1..n -> 1..n] : \A i, j \in 1..n : i # j => p[i] # p[j]}

\* Mutant: the pairs are combined in insertion order.
CanonicalPairs_inserted(kv) == kv

\* The pairs of a mapping in the order of their canonical key bytes.
CanonicalPairs(kv) ==
  CHOOSE q \in {[i \in 1..Len(kv) |-> kv[p[i]]] : p \in Perms(Len(kv))} :
    \A i \in 1..(Len(kv) - 1) : KeyRank(q[i][1]) < KeyRank(q[i + 1][1])

\* Mutant: a bool is taken for the int it is a subclass of.
HashTag_boolint(p) ==
  CASE p = "dict" -> "Dict"
    [] p = "list" -> "Array"
    [] p = "bool" -> "Int"
    [] OTHER -> PyToZefType(p)

\* The type tag of the Hash Value of a Python value.
HashTag(p) ==
  CASE p = "dict" -> "Dict"
    [] p = "list" -> "Array"
    [] OTHER -> PyToZefType(p)

RECURSIVE merkle_hash_of(_)
merkle_hash_of(v) ==
  IF v.py = "dict"
  THEN [tag |-> HashTag(v.py),
        pairs |-> [i \in 1..Len(v.kv) |->
                     <<CanonicalPairs(v.kv)[i][1], merkle_hash_of(CanonicalPairs(v.kv)[i][2])>>]]
  ELSE IF v.py = "list"
  THEN [tag |-> HashTag(v.py), items |-> [i \in 1..Len(v.l) |-> merkle_hash_of(v.l[i])]]
  ELSE [tag |-> HashTag(v.py), leaf |-> v.s]

content_hash(data) == Ok(merkle_hash_of(data))

AB == <<<<"a", PyInt("1")>>, <<"b", PyStr("x")>>>>
HashVals ==
  { PyStr(""), PyStr("x"), PyInt("1"), PyInt("42"), PyFloat("3.14159"),
    PyBool("True"), PyBool("False"), PyNone,
    PyOrderedDict(<<>>), PyList(<<>>),
    PyOrderedDict(AB),
    PyOrderedDict(<<<<"outer", PyOrderedDict(AB)>>, <<"n", PyInt("42")>>>>),
    PyList(<<PyInt("1"), PyInt("42")>>),
    PyList(<<PyOrderedDict(AB), PyInt("1"), PyBool("True")>>) }

\* The values equal to v when the order of mapping keys is ignored, at
\* every depth.
RECURSIVE Reorderings(_)
Reorderings(v) ==
  IF v.py = "dict"
  THEN LET n == Len(v.kv)
           vals == {w \in [1..n -> UNION {Reorderings(v.kv[i][2]) : i \in 1..n}] :
                      \A i \in 1..n : w[i] \in Reorderings(v.kv[i][2])}
       IN {PyOrderedDict([i \in 1..n |-> <<v.kv[p[i]][1], w[p[i]]>>]) :
             p \in Perms(n), w \in vals}
  ELSE IF v.py = "list"
  THEN LET n == Len(v.l)
       IN {PyList(w) : w \in {w \in [1..n -> UNION {Reorderings(v.l[i]) : i \in 1..n}] :
                                 \A i \in 1..n : w[i] \in Reorderings(v.l[i])}}
  ELSE {v}

HashProv(how, base, first) == [how |-> how, base |-> base, first |-> first]

InitHash ==
  /\ clock = 0
  /\ obj \in HashVals
  /\ prov = HashProv("new", obj, NoCall.res)
  /\ last = NoCall
  /\ frame = NoFrame

\* The first call on a value.
HashFirst ==
  /\ prov.how = "new"
  /\ prov' = HashProv("hashed", obj, content_hash(obj))
  /\ last' = Call("content_hash", content_hash(obj))
  /\ frame' = Frame(obj, <<"merkle_hash">>, obj)
  /\ UNCHANGED <<clock, obj>>

\* A later call, on whatever value the caller holds by then.
HashAgain ==
  /\ prov.how # "new"
  /\ last' = Call("content_hash", content_hash(obj))
  /\ frame' = Frame(obj, <<"merkle_hash">>, obj)
  /\ UNCHANGED <<clock, obj, prov>>

\* The caller rebuilds the value with mapping keys inserted in another order.
ReorderKeys ==
  /\ prov.how = "hashed"
  /\ \E w \in Reorderings(obj) \ {obj} : obj' = w
  /\ last' = NoCall
  /\ frame' = NoFrame
  /\ UNCHANGED <<clock, prov>>

\* The caller reverses a sequence.
ReverseList ==
  /\ prov.how = "hashed"
  /\ obj.py = "list"
  /\ obj' = PyList([i \in 1..Len(obj.l) |-> obj.l[Len(obj.l) + 1 - i]])
  /\ obj' # obj
  /\ prov' = [prov EXCEPT !.how = "reversed"]
  /\ last' = NoCall
  /\ frame' = NoFrame
  /\ UNCHANGED clock

\* The caller takes up another value.
TakeOther(v) ==
  /\ prov.how = "hashed"
  /\ v \notin Reorderings(prov.base)
  /\ obj' = v
  /\ prov' = [prov EXCEPT !.how = "other"]
  /\ last' = NoCall
  /\ frame' = NoFrame
  /\ UNCHANGED clock

NextHash ==
  \/ HashFirst
  \/ HashAgain
  \/ ReorderKeys
  \/ ReverseList
  \/ \E v \in HashVals : TakeOther(v)

SpecHash == InitHash /\ [][NextHash]_vars

(***************************************************************************)
(* key_management.py: key generation and key files.  A name or a path is   *)
(* the sequence of its components ("~/k/a.json" is <<"~", "k", "a.json">>, *)
(* "/tmp/a.json" is <<"/", "tmp", "a.json">>); it contains a separator     *)
(* exactly when it has more than one component.  The file system maps the  *)
(* absolute path of every existing file to its text.                       *)
(***************************************************************************)
\* zef.generate_ed25519_key_pair(): the i-th key pair the library can draw.
generate_ed25519_key_pair(i) ==
  ZEntity("ET.Ed25519KeyPair",
          "__uid" :> ZStr(KeyUid(i)) @@ "private_key" :> ZStr(PrivateKeyOf(i))
          @@ "public_key" :> ZStr(DerivePublic(PrivateKeyOf(i))))

generate_key_pair_defaulting(endorsed_by, expires_in, unendorsed, i) ==
  IF endorsed_by = PyNone THEN Raise("NotImplementedError")
  ELSE IF endorsed_by # PyNone \/ expires_in # PyNone THEN Raise("NotImplementedError")
  ELSE _to_native_python_hard(to_json_like(generate_ed25519_key_pair(i)))

generate_key_pair(endorsed_by, expires_in, unendorsed, i) ==
  IF ~unendorsed /\ endorsed_by = PyNone THEN Raise("NotImplementedError")
  ELSE IF endorsed_by # PyNone \/ expires_in # PyNone THEN Raise("NotImplementedError")
  ELSE _to_native_python_hard(to_json_like(generate_ed25519_key_pair(i)))

is_endorsed(key) == Raise("NotImplementedError")
get_endorsement_chain(key) == Raise("NotImplementedError")

\* The process environment: sys.platform and the APPDATA variable.
Home == <<"/", "home", "u">>
Cwd == <<"/", "work">>
AppData == <<"/", "home", "u", "AppData">>
Envs ==
  { [platform |-> "linux", appdata |-> <<>>],
    [platform |-> "win32", appdata |-> <<>>],
    [platform |-> "win32", appdata |-> AppData] }

expanduser(p) == IF p[1] = "~" THEN Home \o Tail(p) ELSE p
\* os.environ.get("APPDATA") or os.path.expanduser("~")
get_key_directory(env) ==
  IF env.platform = "win32"
  THEN (IF env.appdata # <<>> THEN env.appdata ELSE expanduser(<<"~">>)) \o <<"msd", "keys">>
  ELSE expanduser(<<"~", ".config", "msd", "keys">>)

_resolve_key_path_unexpanded(name_or_path, env) ==
  IF Len(name_or_path) > 1 THEN name_or_path
  ELSE get_key_directory(env) \o name_or_path

_resolve_key_path(name_or_path, env) ==
  IF Len(name_or_path) > 1 THEN expanduser(name_or_path)
  ELSE get_key_directory(env) \o name_or_path

\* The file open(path) reaches: a relative path starts at the working
\* directory and "." components name no directory of their own.
RealPath(p) ==
  LET abs == IF p[1] = "/" THEN p ELSE Cwd \o p
  IN SelectSeq(abs, LAMBDA x : x # ".")

\* json.dump and json.load: a str, int, bool, None, list or dict with str
\* keys becomes the JSON value of its kind and comes back as it was.
JsonKind(p) ==
  CASE p = "str" -> "string"
    [] p = "int" -> "number"
    [] p = "bool" -> "boolean"
    [] p = "NoneType" -> "null"
    [] p = "dict" -> "object"
    [] p = "list" -> "array"
    [] OTHER -> "TypeError"

PyKind(j) == CHOOSE p \in {"str", "int", "bool", "NoneType", "dict", "list"} : JsonKind(p) = j

RECURSIVE json_dumps(_)
json_dumps(v) ==
  IF v.py = "dict" THEN [j |-> "object", m |-> [k \in DOMAIN v.m |-> json_dumps(v.m[k])]]
  ELSE IF v.py = "list" THEN [j |-> "array", l |-> [i \in DOMAIN v.l |-> json_dumps(v.l[i])]]
  ELSE Retag(v, "py", "j", JsonKind(v.py))

RECURSIVE json_loads(_)
json_loads(x) ==
  IF x.j = "object" THEN PyDict([k \in DOMAIN x.m |-> json_loads(x.m[k])])
  ELSE IF x.j = "array" THEN PyList([i \in DOMAIN x.l |-> json_loads(x.l[i])])
  ELSE Retag(x, "j", "py", PyKind(x.j))

\* save_key: the file system after the call, and the path it returns.
save_key_files(fs, key, name, env) ==
  (RealPath(_resolve_key_path(name, env)) :> json_dumps(key)) @@ fs
save_key(fs, key, name, env) == Ok(_resolve_key_path(name, env))

load_key(fs, name, env) ==
  LET path == RealPath(_resolve_key_path(name, env))
  IN IF path \in DOMAIN fs THEN Ok(json_loads(fs[path])) ELSE Raise("FileNotFoundError")

\* The file a name stands for: a simple name is a file of the default key
\* directory, a name with a separator is a path.
ResolvedFile(name, env) ==
  RealPath(IF Len(name) > 1 THEN expanduser(name) ELSE get_key_directory(env) \o name)

\* The names and paths a caller uses for key files.
KeyNames ==
  { <<"alice.json">>,
    <<"~", ".config", "msd", "keys", "alice.json">>,
    <<"~", "msd", "keys", "alice.json">>,
    <<".", "alice.json">>, <<"/", "work", "alice.json">> }

NoFiles == [f \in {} |-> PyNone]
KeyArgs(endorsed_by, expires_in, unendorsed) ==
  [endorsed_by |-> endorsed_by, expires_in |-> expires_in, unendorsed |-> unendorsed]

\* obj is the file system; prov keeps the environment and, for every file,
\* the key last saved to it and the name it was saved under.
InitKeys ==
  /\ clock = 0
  /\ obj = NoFiles
  /\ \E env \in Envs : prov = [env |-> env, saved |-> NoFiles]
  /\ last = NoCall
  /\ frame = NoFrame

GenerateKeyPair(endorsed_by, expires_in, unendorsed, i) ==
  /\ last' = Call("generate_key_pair", generate_key_pair(endorsed_by, expires_in, unendorsed, i))
  /\ frame' = Frame(KeyArgs(endorsed_by, expires_in, unendorsed), <<>>,
                    KeyArgs(endorsed_by, expires_in, unendorsed))
  /\ UNCHANGED <<clock, obj, prov>>

SaveKey(i, name) ==
  LET key == KeyPair(i)
  IN /\ obj' = save_key_files(obj, key, name, prov.env)
     /\ prov' = [prov EXCEPT !.saved =
                   (ResolvedFile(name, prov.env) :> [key |-> key, name |-> name]) @@ @]
     /\ last' = Call("save_key", save_key(obj, key, name, prov.env))
     /\ frame' = Frame([key |-> key, name |-> name], <<>>, [key |-> key, name |-> name])
     /\ UNCHANGED clock

LoadKey(name) ==
  /\ last' = Call("load_key", load_key(obj, name, prov.env))
  /\ frame' = Frame([name |-> name], <<>>, [name |-> name])
  /\ UNCHANGED <<clock, obj, prov>>

NextKeys ==
  \/ \E e \in {PyNone, KeyPair(1)}, x \in {PyNone, PyStr("30d")}, u \in BOOLEAN, i \in KeyIds :
       GenerateKeyPair(e, x, u, i)
  \/ \E i \in KeyIds, name \in KeyNames : SaveKey(i, name)
  \/ \E name \in KeyNames : LoadKey(name)

SpecKeys == InitKeys /\ [][NextKeys]_vars

(***************************************************************************)
(* Two invocations of sign_and_embed or strip_metadata_and_signature       *)
(* running at once, one statement at a time.  Each invocation works on the *)
(* local names of its own call (data_, timestamp, binary_data_to_embed);   *)
(* the module has no global the functions write to.  obj holds the locals, *)
(* prov the position and arguments of each invocation, frame the caller's  *)
(* mapping as it is now, last the value each invocation returned.          *)
(***************************************************************************)
Threads == {"t1", "t2"}

\* Mutant: the working names are module-level, shared by every invocation.
Locals_global(t) == "t1"

\* Where an invocation keeps data_, timestamp and binary_data_to_embed.
Locals(t) == t

NoLocals == [data_ |-> ZNil, timestamp |-> ZNil, binary_data_to_embed |-> ZNil]
Idle == [pc |-> "idle", op |-> "none", input |-> PyNone, meta |-> PyNone, key |-> PyNone,
         read |-> 0]

ConcInputs ==
  { RawFile("png", "A", TRUE), RawFile("gif", "A", FALSE),
    Val(sign_and_embed(RawFile("pdf", "B", TRUE), PyDict(EmptyMap), KeyPair(1), 0)) }
ConcMeta == PyDict("author" :> PyStr("alice") @@ "confidential" :> PyBool("True"))

InitConc ==
  /\ clock = 0
  /\ obj = [t \in Threads |-> NoLocals]
  /\ prov = [t \in Threads |-> Idle]
  /\ last = [t \in Threads |-> NoCall]
  /\ frame = [t \in Threads |-> PyNone]

Begin(t, op, data, i) ==
  /\ prov[t].pc = "idle"
  /\ prov' = [prov EXCEPT ![t] = [pc |-> "match", op |-> op, input |-> data,
                                  meta |-> ConcMeta, key |-> KeyPair(i), read |-> 0]]
  /\ frame' = [frame EXCEPT ![t] = data]
  /\ UNCHANGED <<clock, obj, last>>

\* match data['type']: data_ = zef.PngImage(data['content']) ... or raise.
MatchStep(t) ==
  LET typed == MatchFileType(frame[t])
  IN /\ prov[t].pc = "match"
     /\ IF IsOk(typed)
        THEN /\ obj' = [obj EXCEPT ![Locals(t)].data_ = Val(typed)]
             /\ prov' = [prov EXCEPT ![t].pc = "strip"]
             /\ UNCHANGED last
        ELSE /\ last' = [last EXCEPT ![t] = Call(prov[t].op, typed)]
             /\ prov' = [prov EXCEPT ![t].pc = "done"]
             /\ UNCHANGED obj
     /\ UNCHANGED <<clock, frame>>

\* data_ = zef.strip_embedded_data(data_)
StripStep(t) ==
  /\ prov[t].pc = "strip"
  /\ obj' = [obj EXCEPT ![Locals(t)].data_ = strip_embedded_data(@)]
  /\ prov' = [prov EXCEPT ![t].pc = IF prov[t].op = "sign_and_embed" THEN "now" ELSE "return"]
  /\ UNCHANGED <<clock, last, frame>>

\* timestamp = zef.now()
NowStep(t, tm) ==
  /\ prov[t].pc = "now"
  /\ tm >= clock
  /\ clock' = tm
  /\ obj' = [obj EXCEPT ![Locals(t)].timestamp = now(tm)]
  /\ prov' = [prov EXCEPT ![t].pc = "sign", ![t].read = tm]
  /\ UNCHANGED <<last, frame>>

\* key_internal = ...; binary_data_to_embed = create_signed_granule | remove | to_bytes
SignStep(t) ==
  LET loc == obj[Locals(t)]
  IN /\ prov[t].pc = "sign"
     /\ obj' = [obj EXCEPT ![Locals(t)].binary_data_to_embed =
                  to_bytes(remove(create_signed_granule(loc.data_, prov[t].meta, loc.timestamp,
                                                        from_json_like(prov[t].key)), "data"))]
     /\ prov' = [prov EXCEPT ![t].pc = "embed"]
     /\ UNCHANGED <<clock, last, frame>>

\* signed = zef.embed_data(data_, binary_data_to_embed)
EmbedStep(t) ==
  LET loc == obj[Locals(t)]
  IN /\ prov[t].pc = "embed"
     /\ obj' = [obj EXCEPT ![Locals(t)].data_ = embed_data(loc.data_, loc.binary_data_to_embed)]
     /\ prov' = [prov EXCEPT ![t].pc = "return"]
     /\ UNCHANGED <<clock, last, frame>>

\* the closing match: return {'type': ..., 'content': bytes(...)}
ReturnStep(t) ==
  /\ prov[t].pc = "return"
  /\ last' = [last EXCEPT ![t] =
                Call(prov[t].op, Ok(FileDict(StrOf(frame[t].m["type"]), obj[Locals(t)].data_)))]
  /\ prov' = [prov EXCEPT ![t].pc = "done"]
  /\ UNCHANGED <<clock, obj, frame>>

NextConc ==
  \E t \in Threads :
    \/ \E op \in {"sign_and_embed", "strip_metadata_and_signature"},
          data \in ConcInputs, i \in KeyIds : Begin(t, op, data, i)
    \/ MatchStep(t)
    \/ StripStep(t)
    \/ \E tm \in Times : NowStep(t, tm)
    \/ SignStep(t)
    \/ EmbedStep(t)
    \/ ReturnStep(t)

SpecConc == InitConc /\ [][NextConc]_vars

(***************************************************************************)
(* verify on inputs of every shape: a '__type' tag or none, the keys of a  *)
(* file dict or some of them, the fields of a Granule or none, in one      *)
(* mapping.  An input tagged 'ET.SignedGranule' carries a Granule's fields.*)
(***************************************************************************)
Restrict(m, ks) == [k \in DOMAIN m \cap ks |-> m[k]]

ShapeTags ==
  { EmptyMap, "__type" :> PyStr("ET.SignedGranule"), "__type" :> PyStr("ET.Ed25519KeyPair") }
ShapeSigned(ty) == Val(sign_and_embed(RawFile(ty, "A", FALSE), PyDict(EmptyMap), KeyPair(1), 0)).m
ShapeFiles ==
  { EmptyMap, RawFile("png", "A", FALSE).m, RawFile("gif", "A", FALSE).m,
    ShapeSigned("png"), ShapeSigned("pdf"),
    Restrict(ShapeSigned("png"), {"type"}), Restrict(ShapeSigned("png"), {"content"}) }
ShapeGranule == Val(create_granule(PyStr("Hello"), PyDict(EmptyMap), KeyPair(1), 0)).m
ShapeFields ==
  { EmptyMap, Restrict(ShapeGranule, DOMAIN ShapeGranule \ {"__type"}),
    Restrict([ShapeGranule EXCEPT !["data"] = PyInt("42")], DOMAIN ShapeGranule \ {"__type"}) }
ShapeInputs ==
  { PyDict(c[1] @@ c[2] @@ c[3]) :
      c \in { x \in ShapeTags \X ShapeFiles \X ShapeFields :
                x[1] = ("__type" :> PyStr("ET.SignedGranule")) => x[3] # EmptyMap } }
  \cup NonMappings

InitShape ==
  /\ clock = 0
  /\ obj \in ShapeInputs
  /\ prov = RawProv(obj)
  /\ last = NoCall
  /\ frame = NoFrame

NextShape == Verify

SpecShape == InitShape /\ [][NextShape]_vars

(***************************************************************************)
(* publish.py: workflow_publish, one statement group at a time.  A version *)
(* is the sequence of its dot-separated numbers.  obj holds the version    *)
(* written in pyproject.toml and in __init__.py (<<>> when the file does   *)
(* not exist) and whether dist/ holds built files; prov the position and   *)
(* the locals of the run and the state of PyPI; frame.zef the steps the    *)
(* run went through; last how the run ended.                               *)
(***************************************************************************)
bump_version_str(current, bump_type) ==
  IF Len(current) # 3 THEN Raise("ValueError")
  ELSE IF bump_type = "major" THEN Ok(<<current[1] + 1, 0, 0>>)
  ELSE IF bump_type = "minor" THEN Ok(<<current[1], current[2] + 1, 0>>)
  ELSE Ok(<<current[1], current[2], current[3] + 1>>)

get_version(files) == files.pyproject

set_version(files, new_version) ==
  [files EXCEPT !.pyproject = new_version,
                !.init = IF @ # <<>> THEN new_version ELSE @]

\* Mutant: the check gives up and the workflow proceeds anyway.
version_exists_on_pypi_blind(version, pypi) == "None"

\* True, False, or None when PyPI could not be asked.
version_exists_on_pypi(version, pypi) ==
  IF ~pypi.reachable THEN "None"
  ELSE IF version \in pypi.versions THEN "True" ELSE "False"

StartVersions == { <<0, 1, 0>>, <<0, 9>> }
BumpTypes == {"", "patch", "minor", "major"}
PyPIStates ==
  { [reachable |-> FALSE, versions |-> {}],
    [reachable |-> TRUE, versions |-> {}],
    [reachable |-> TRUE, versions |-> {<<0, 1, 0>>}],
    [reachable |-> TRUE, versions |-> {<<0, 1, 0>>, <<0, 1, 1>>, <<0, 2, 0>>, <<1, 0, 0>>}] }
TokenInputs == {"env", "typed", "empty", "malformed", "interrupt"}

InitPublish ==
  /\ clock = 0
  /\ \E v \in StartVersions, hasInit \in BOOLEAN :
       obj = [pyproject |-> v, init |-> IF hasInit THEN v ELSE <<>>, dist |-> FALSE]
  /\ \E b \in BumpTypes, pypi \in PyPIStates :
       /\ prov = [how |-> "publish", pc |-> "start", version |-> <<>>, start |-> obj.pyproject,
                  pypi |-> pypi, exists |-> "None", built |-> FALSE]
       /\ frame = Frame(b, <<>>, b)
  /\ last = NoCall

Exit(status) == last' = Call("workflow_publish", Raise(status))
Logged(step) == frame' = [frame EXCEPT !.zef = Append(@, step)]

\* version = get_version()
ReadVersion ==
  /\ prov.how = "publish" /\ prov.pc = "start"
  /\ prov' = [prov EXCEPT !.version = get_version(obj),
                          !.pc = IF frame.arg # "" THEN "bump" ELSE "check"]
  /\ UNCHANGED <<clock, obj, last, frame>>

\* 1. new_version = bump_version_str(version, bump_type); set_version(new_version)
BumpVersion ==
  LET new_version == bump_version_str(prov.version, frame.arg)
  IN /\ prov.how = "publish" /\ prov.pc = "bump"
     /\ Logged("bump")
     /\ IF IsOk(new_version)
        THEN /\ obj' = set_version(obj, Val(new_version))
             /\ prov' = [prov EXCEPT !.version = Val(new_version), !.pc = "check"]
             /\ UNCHANGED last
        ELSE /\ Exit("ValueError")
             /\ prov' = [prov EXCEPT !.pc = "exit"]
             /\ UNCHANGED obj
     /\ UNCHANGED clock

\* 2. exists = version_exists_on_pypi(version); sys.exit(1) when it is True
CheckPyPI ==
  LET exists == version_exists_on_pypi(prov.version, prov.pypi)
  IN /\ prov.how = "publish" /\ prov.pc = "check"
     /\ Logged("check")
     /\ prov' = [prov EXCEPT !.exists = exists,
                             !.pc = IF exists = "True" THEN "exit" ELSE "clean"]
     /\ IF exists = "True" THEN Exit("SystemExit(1)") ELSE UNCHANGED last
     /\ UNCHANGED <<clock, obj>>

\* 3. clean_dist()
CleanDist ==
  /\ prov.how = "publish" /\ prov.pc = "clean"
  /\ Logged("clean")
  /\ obj' = [obj EXCEPT !.dist = FALSE]
  /\ prov' = [prov EXCEPT !.pc = "build"]
  /\ UNCHANGED <<clock, last>>

\* if not build(): sys.exit(1)
Build(ok) ==
  /\ prov.how = "publish" /\ prov.pc = "build"
  /\ Logged("build")
  /\ obj' = [obj EXCEPT !.dist = ok]
  /\ prov' = [prov EXCEPT !.built = ok, !.pc = IF ok THEN "token" ELSE "exit"]
  /\ IF ok THEN UNCHANGED last ELSE Exit("SystemExit(1)")
  /\ UNCHANGED clock

\* 4. token = get_token(): from the environment or typed in; an interrupted
\* prompt exits with 0, an empty or malformed token with 1.
GetToken(input) ==
  /\ prov.how = "publish" /\ prov.pc = "token"
  /\ Logged("token")
  /\ prov' = [prov EXCEPT !.pc = IF input \in {"env", "typed"} THEN "publish" ELSE "exit"]
  /\ IF input \in {"env", "typed"} THEN UNCHANGED last
     ELSE IF input = "interrupt" THEN Exit("SystemExit(0)")
     ELSE Exit("SystemExit(1)")
  /\ UNCHANGED <<clock, obj>>

\* 5. if not publish(token): sys.exit(1)
Publish(ok) ==
  /\ prov.how = "publish" /\ prov.pc = "publish"
  /\ Logged("publish")
  /\ prov' = [prov EXCEPT !.pc = "exit",
                          !.pypi.versions = IF ok THEN @ \cup {prov.version} ELSE @]
  /\ last' = Call("workflow_publish", IF ok THEN Ok(PyNone) ELSE Raise("SystemExit(1)"))
  /\ UNCHANGED <<clock, obj>>

NextPublish ==
  \/ ReadVersion
  \/ BumpVersion
  \/ CheckPyPI
  \/ CleanDist
  \/ \E ok \in BOOLEAN : Build(ok)
  \/ \E input \in TokenInputs : GetToken(input)
  \/ \E ok \in BOOLEAN : Publish(ok)

SpecPublish == InitPublish /\ [][NextPublish]_vars

(***************************************************************************)
(* A caller that wants Granules stamped with a clock value of its own.     *)
(* create_granule(data, metadata, key) has no parameter for it: the time   *)
(* is what zef.now() returns at the call.                                  *)
(***************************************************************************)
ClockProv(d, m, i, c, same, prev) ==
  [how |-> "created", base |-> d, meta |-> m, key |-> i, injected |-> c,
   same |-> same, prev |-> prev]

InitClock ==
  /\ clock = 0
  /\ obj = PyNone
  /\ prov = [ClockProv(PyNone, PyNone, 0, 0, FALSE, NoCall.res) EXCEPT !.how = "raw"]
  /\ last = NoCall
  /\ frame = NoFrame

\* The caller asks for clock value c; the wall clock reads t.
CreateGranuleAt(d, m, i, c, t) ==
  LET r == create_granule(d, m, KeyPair(i), t)
  IN /\ t >= clock
     /\ clock' = t
     /\ obj' = Val(r)
     /\ prov' = ClockProv(d, m, i, c,
                          /\ prov.how = "created" /\ prov.base = d /\ prov.meta = m
                          /\ prov.key = i /\ prov.injected = c,
                          IF last.op = "create_granule" THEN last.res ELSE prov.prev)
     /\ last' = Call("create_granule", r)
     /\ frame' = Frame(d, create_granule_calls(d), d)

NextClock ==
  \/ \E d \in DataVals, m \in Metas, i \in KeyIds, c \in Times, t \in Times :
       CreateGranuleAt(d, m, i, c, t)
  \/ Verify

SpecClock == InitClock /\ [][NextClock]_vars

(***************************************************************************)
(* Properties.                                                             *)
(***************************************************************************)
IsSupportedFile(o) ==
  /\ HasKey(o, "type") /\ HasKey(o, "content")
  /\ StrOf(o.m["type"]) \in SupportedTypes
TypeOf(o) == StrOf(o.m["type"])
ContentOf(o) == o.m["content"].c
HasEnvelope(o) == HasKey(o, "content") /\ ContentOf(o).emb # <<>>
NormalizingFormat(ty) == Normalizes(ZefFileType(ty))
\* The data the embedded signature was made over, and the data verify
\* rebuilds from the container.
SignedData(o) == ContentOf(o).emb[1].b.f["signature"].f["signature"].sig.msg.digest.m["data"]
RebuiltData(o) == strip_embedded_data(Val(MatchFileType(o)))
Called(op) == last.op = op

C2_VerifyMutated ==
  (Called("verify") /\ prov.how = "mutated") => last.res = Ok(FALSE)

C2_Witness ==
  /\ Called("verify") /\ prov.how = "mutated" /\ last.res = Ok(FALSE)
  /\ prov.field = "signature_time"

C4_VerifySigned ==
  (Called("verify") /\ prov.how = "signed") =>
     /\ last.res = Ok(TRUE)
     /\ SignedData(obj) = RebuiltData(obj)

C4_Witness ==
  /\ Called("verify") /\ prov.how = "signed" /\ last.res = Ok(TRUE)
  /\ ContentOf(prov.base).extra /\ TypeOf(obj) = "png"

\* C5: a signed container whose bytes outside the envelope were altered so
\* that its stripped content is no longer the signed content verifies False.
C5_VerifyTampered ==
  (Called("verify") /\ prov.how = "tampered" /\ RebuiltData(obj) # SignedData(obj)) =>
     last.res = Ok(FALSE)

C5_Witness ==
  /\ Called("verify") /\ prov.how = "tampered" /\ RebuiltData(obj) # SignedData(obj)
  /\ last.res = Ok(FALSE) /\ prov.field = "payload"

\* C6: extract_metadata on the output of sign_and_embed(container, metadata,
\* key), also after saving and reloading the bytes, returns metadata.
C6_ExtractRoundTrip ==
  (Called("extract_metadata") /\ prov.how = "signed") => last.res = Ok(prov.meta)

C6_Witness ==
  /\ Called("extract_metadata") /\ prov.how = "signed" /\ prov.reloaded
  /\ prov.meta # PyDict(EmptyMap) /\ last.res = Ok(prov.meta)

\* The result of strip on sign_and_embed(c, ...) has c's type tag and the
\* content of strip(c).
StripIsCanonical(c) ==
  /\ IsOk(last.res)
  /\ TypeOf(Val(last.res)) = TypeOf(c)
  /\ ContentOf(Val(last.res)) = ContentOf(Val(strip_metadata_and_signature(c)))

\* C7 as stated: strip(sign_and_embed(c, ...)) has the type tag of c, the
\* content of strip(c), and is byte-identical to c for every format that
\* needs no normalization.
C7_StripRoundTrip_Original ==
  (Called("strip_metadata_and_signature") /\ prov.how = "signed") =>
     /\ StripIsCanonical(prov.input)
     /\ ~NormalizingFormat(TypeOf(prov.input)) =>
          ContentOf(Val(last.res)) = ContentOf(prov.input)

\* C7, amended: strip(sign_and_embed(c, ...)) has the type tag of c and the
\* content of strip(c); it is byte-identical to c for every format that needs
\* no normalization when c carries no embedded envelope.
C7_StripRoundTrip ==
  (Called("strip_metadata_and_signature") /\ prov.how = "signed") =>
     /\ StripIsCanonical(prov.input)
     /\ (~NormalizingFormat(TypeOf(prov.input)) /\ ~HasEnvelope(prov.input)) =>
          ContentOf(Val(last.res)) = ContentOf(prov.input)

C7_Witness ==
  /\ Called("strip_metadata_and_signature") /\ prov.how = "signed"
  /\ TypeOf(prov.input) = "pdf" /\ ContentOf(prov.input).extra
  /\ ~HasEnvelope(prov.input)
  /\ ContentOf(Val(last.res)) = ContentOf(prov.input)

\* C8: a container signed a second time carries the second envelope only:
\* extract_metadata returns the second metadata, verify returns True, and
\* strip yields what strip yields on the original signed once with the
\* second metadata and key.
C8_ResignCarriesSecondOnly ==
  (prov.how = "signed" /\ prov.n >= 2) =>
     /\ Len(ContentOf(obj).emb) = 1
     /\ extract_metadata(obj) = Ok(prov.meta)
     /\ verify(obj) = Ok(TRUE)
     /\ strip_metadata_and_signature(obj) =
          strip_metadata_and_signature(
            Val(sign_and_embed(prov.base, prov.meta, KeyPair(prov.key), clock)))

C8_Witness ==
  /\ prov.how = "signed" /\ prov.n = 2 /\ prov.meta0 # prov.meta
  /\ prov.meta0 # PyDict(EmptyMap)
  /\ extract_metadata(obj) = Ok(prov.meta)

NeverSigned(o) == IsSupportedFile(o) /\ ~HasEnvelope(o)

\* C9 as stated: strip_metadata_and_signature raises on a container with no
\* embedded envelope, and so does sign_and_embed on a never-signed container.
C9_StripRaises_Original ==
  /\ (Called("strip_metadata_and_signature") /\ NeverSigned(obj)) => ~IsOk(last.res)
  /\ (Called("sign_and_embed") /\ NeverSigned(prov.input)) => ~IsOk(last.res)

\* C9, amended: strip_metadata_and_signature on a never-signed container of
\* a supported format returns the container's canonical content (same type
\* tag, nothing embedded, the bytes of the input unless the format
\* normalizes), and sign_and_embed succeeds on a never-signed container.
C9_StripOfUnsigned ==
  /\ (Called("strip_metadata_and_signature") /\ NeverSigned(obj)) =>
        /\ IsOk(last.res)
        /\ TypeOf(Val(last.res)) = TypeOf(obj)
        /\ ~HasEnvelope(Val(last.res))
        /\ ContentOf(Val(last.res)).payload = ContentOf(obj).payload
        /\ ~NormalizingFormat(TypeOf(obj)) => ContentOf(Val(last.res)) = ContentOf(obj)
  /\ (Called("sign_and_embed") /\ NeverSigned(prov.input)) => IsOk(last.res)

C9_Witness ==
  /\ Called("strip_metadata_and_signature") /\ NeverSigned(obj) /\ IsOk(last.res)
  /\ prov.how = "raw" /\ TypeOf(obj) = "png" /\ ContentOf(obj).extra
  /\ ~ContentOf(Val(last.res)).extra

\* Inputs that carry no embedded signature data: a supported container
\* without envelope, or a mapping with no "__msd" key and no envelope.
NoSignatureData(o) == IsDict(o) /\ "__msd" \notin DOMAIN o.m /\ ~HasEnvelope(o)

\* C10: extract_metadata, extract_signature and verify raise ValueError, and
\* no other error, on every input that carries no embedded signature data.
C10_NoDataIsValueError ==
  (last.op \in {"extract_metadata", "extract_signature", "verify"} /\ NoSignatureData(obj)) =>
     last.res.status = "ValueError"

\* A mapping whose format tag is outside the supported set.
UnsupportedTag(o) == HasKey(o, "type") /\ StrOf(o.m["type"]) \notin SupportedTypes
FileOps ==
  {"sign_and_embed", "extract_metadata", "extract_signature", "strip_metadata_and_signature"}
\* The latest call was one of the file operations on an input with an
\* unsupported tag (verify: in its file case, with 'content' present).
UnsupportedCall ==
  /\ UnsupportedTag(frame.arg)
  /\ \/ last.op \in FileOps
     \/ last.op = "verify" /\ HasKey(frame.arg, "content")
        /\ ~(HasKey(frame.arg, "__type") /\ StrOf(frame.arg.m["__type"]) = "ET.SignedGranule")
FailsAtDispatch == last.res = Raise("ValueError") /\ frame.zef = <<>>

\* C11 as stated: on every input whose format tag is outside the supported
\* set, sign_and_embed, extract_metadata, extract_signature,
\* strip_metadata_and_signature and verify (file case) raise ValueError
\* before any zef operation (strip, now, signing, embedding) is reached.
C11_UnsupportedFormat_Original == UnsupportedCall => FailsAtDispatch

\* C11, amended: the same, except that extract_metadata and
\* extract_signature are only covered for inputs without an '__msd' key (a
\* mapping with '__msd' is decoded as a signed mapping, whatever its tag).
C11_UnsupportedFormat ==
  (UnsupportedCall /\ ~(last.op \in {"extract_metadata", "extract_signature"}
                        /\ HasKey(frame.arg, "__msd")))
    => FailsAtDispatch

C11_Witness ==
  /\ UnsupportedCall /\ last.op = "sign_and_embed" /\ FailsAtDispatch
  /\ HasKey(frame.arg, "content") /\ obj = frame.arg /\ prov.how = "raw"

\* Inputs of neither shape verify accepts: no Granule type tag, and not
\* both of 'type' and 'content'.
Unrecognized(o) ==
  /\ ~(HasKey(o, "__type") /\ StrOf(o.m["__type"]) = "ET.SignedGranule")
  /\ ~(HasKey(o, "type") /\ HasKey(o, "content"))

\* C12: verify raises ValueError on every input that is neither a Granule
\* nor a mapping with both 'type' and 'content', inputs that are no mappings
\* (None, list, string) included.
C12_UnrecognizedShape ==
  (Called("verify") /\ Unrecognized(frame.arg)) => last.res.status = "ValueError"

EnvelopeFields == {"metadata", "signature_time", "signature", "key"}
\* The envelope embedded in a container, as zef entity.
EmbeddedEnvelope(o) == bytes_to_zef_value(extract_embedded_data(Val(MatchFileType(o))))
CarriesEnvelope(o) == IsSupportedFile(o) /\ HasEnvelope(o)
CarriesMsd(o) == HasKey(o, "__msd") /\ IsStegoText(o.m["__msd"])

\* C13: the envelope sign_and_embed embeds holds exactly metadata,
\* signature_time, signature and key under the Granule type tag, the value
\* under '__msd' decodes to exactly these four fields, neither holds 'data',
\* and what extract_metadata and extract_signature return is built from
\* these fields only.
C13_EnvelopeFields ==
  /\ CarriesEnvelope(obj) =>
       /\ EmbeddedEnvelope(obj).et = "ET.SignedGranule"
       /\ DOMAIN EmbeddedEnvelope(obj).f = EnvelopeFields
       /\ DOMAIN Val(ExtractEmbedded(obj)).m = EnvelopeFields \cup {"__type"}
  /\ CarriesMsd(obj) => DOMAIN Val(_extract_msd_from_dict(obj)).m = EnvelopeFields
  /\ (last.op = "extract_signature" /\ IsOk(last.res)) =>
       /\ DOMAIN Val(last.res).m = {"signature", "signature_time", "key"}
       /\ \A k \in DOMAIN Val(last.res).m : Val(last.res).m[k] # PyNone
  /\ (last.op \in {"extract_metadata", "extract_signature"} /\ IsOk(last.res)) =>
       /\ Val(last.res) # frame.arg
       /\ \A k \in DOMAIN Val(last.res).m : Val(last.res).m[k].py # "bytes"

C13_Witness ==
  /\ CarriesEnvelope(obj) /\ prov.how = "signed"
  /\ last.op = "extract_signature" /\ IsOk(last.res)
  /\ ContentOf(obj).extra

C13_WitnessDict ==
  /\ CarriesMsd(obj) /\ prov.how = "dictsigned"
  /\ last.op = "extract_metadata" /\ IsOk(last.res) /\ HasKey(obj, "content")

\* The strings held anywhere in a JSON-like value (a signature text holds
\* the signature, which is bound to the public key).
RECURSIVE StringsIn(_)
StringsIn(v) ==
  IF IsDict(v) THEN UNION {StringsIn(v.m[k]) : k \in DOMAIN v.m}
  ELSE IF "l" \in DOMAIN v THEN UNION {StringsIn(v.l[i]) : i \in DOMAIN v.l}
  ELSE IF "s" \in DOMAIN v THEN {v.s}
  ELSE IF "sig" \in DOMAIN v THEN {v.sig.by}
  ELSE {}

PrivateKeys == {PrivateKeyOf(i) : i \in KeyIds}
\* A JSON-like output whose 'key' is the public projection and that holds
\* no private key anywhere.
PublicOnly(out) ==
  /\ HasKey(out, "key")
  /\ DOMAIN out.m["key"].m \subseteq {"__type", "__uid", "public_key"}
  /\ StrOf(out.m["key"].m["public_key"]) = PublicKeyOf(prov.key)
  /\ StringsIn(out) \cap PrivateKeys = {}

\* C14: the Granule create_granule returns, the envelope sign_and_embed
\* embeds, the value sign_and_embed_dict writes under '__msd' and the result
\* of extract_signature hold the public projection of the key (type, uid,
\* public_key) and the private key nowhere.
C14_NoPrivateKey ==
  /\ prov.how = "created" => PublicOnly(obj)
  /\ (prov.how = "signed" /\ CarriesEnvelope(obj)) =>
        PublicOnly(to_json_like(EmbeddedEnvelope(obj)))
  /\ (prov.how = "dictsigned" /\ CarriesMsd(obj)) =>
        PublicOnly(Val(_extract_msd_from_dict(obj)))
  /\ (last.op = "extract_signature" /\ IsOk(last.res)) => PublicOnly(Val(last.res))

C14_Witness ==
  /\ prov.how = "created" /\ last.op = "create_granule" /\ prov.key = 2
  /\ PublicOnly(obj) /\ HasKey(obj.m["key"], "__uid")

C14_WitnessExtract ==
  /\ last.op = "extract_signature" /\ IsOk(last.res) /\ prov.how = "dictsigned"
  /\ PublicOnly(Val(last.res))

\* C15: sign_and_embed_dict on a mapping that already has '__msd' raises
\* ValueError before it reads the clock or signs; the mapping the caller
\* holds keeps its '__msd' value.
C15_KeyCollision ==
  (Called("sign_and_embed_dict") /\ HasKey(frame.arg, "__msd")) =>
     /\ last.res = Raise("ValueError")
     /\ frame.zef = <<>>
     /\ obj = frame.arg
     /\ frame.after = frame.arg

C15_Witness ==
  /\ Called("sign_and_embed_dict") /\ HasKey(frame.arg, "__msd")
  /\ last.res = Raise("ValueError") /\ prov.how = "dictsigned" /\ prov.n = 1
  /\ obj.m["__msd"] = frame.arg.m["__msd"]

\* C16: the mapping sign_and_embed_dict returns has the input's keys plus
\* '__msd', every input key bound to its input value and '__msd' to a
\* string; the input mapping is as it was, without '__msd'.
C16_ShallowCopy ==
  (Called("sign_and_embed_dict") /\ IsOk(last.res)) =>
     /\ DOMAIN Val(last.res).m = DOMAIN frame.arg.m \cup {"__msd"}
     /\ \A k \in DOMAIN frame.arg.m : Val(last.res).m[k] = frame.arg.m[k]
     /\ Val(last.res).m["__msd"].py = "str"
     /\ frame.after = frame.arg
     /\ "__msd" \notin DOMAIN frame.after.m

C16_Witness ==
  /\ Called("sign_and_embed_dict") /\ IsOk(last.res)
  /\ DOMAIN frame.arg.m = {"type", "content"}
  /\ DOMAIN obj.m = {"type", "content", "__msd"}

\* The decoding operation that undoes an encoding operation.
InverseOf(op) ==
  CASE op = "to_bytes" -> "bytes_to_zef_value"
    [] op = "zstd_compress" -> "zstd_decompress"
    [] op = "to_base64" -> "base64_to_bytes"
    [] op = "encode_secret_string_in_emoji" -> "decode_secret_string_in_emoji"
    [] OTHER -> "none"
Codec(calls) == SelectSeq(calls, LAMBDA c : InverseOf(c) # "none")
Decodec(calls) ==
  SelectSeq(calls, LAMBDA c : \E e \in {"to_bytes", "zstd_compress", "to_base64",
                                         "encode_secret_string_in_emoji"} : InverseOf(e) = c)
Reversed(q) == [i \in 1..Len(q) |-> q[Len(q) + 1 - i]]

\* C17: extract_metadata on the output of sign_and_embed_dict(data,
\* metadata, key) returns metadata, and the decoding stages it runs are the
\* inverses of the encoding stages of sign_and_embed_dict in reverse order.
C17_DictRoundTrip ==
  (Called("extract_metadata") /\ prov.how = "dictsigned") =>
     /\ last.res = Ok(prov.meta)
     /\ Decodec(frame.zef) =
          [i \in 1..4 |->
             InverseOf(Reversed(Codec(sign_and_embed_dict_calls(prov.input, prov.meta)))[i])]

C17_Witness ==
  /\ Called("extract_metadata") /\ prov.how = "dictsigned"
  /\ prov.meta # PyDict(EmptyMap) /\ last.res = Ok(prov.meta)
  /\ prov.input = PyDict("name" :> PyStr("x"))

\* C18: strip_metadata_and_signature on the output of
\* sign_and_embed_dict(data, metadata, key) returns data.
C18_DictStrip ==
  (Called("strip_metadata_and_signature") /\ prov.how = "dictsigned") =>
     last.res = Ok(prov.input)

\* C19: content_hash returns the Hash Value of its first call on every
\* later call on the same value and on every value equal to it when the
\* order of mapping keys is ignored, at every depth.
C19_HashIgnoresKeyOrder ==
  (Called("content_hash") /\ prov.how = "hashed") => last.res = prov.first

C19_Witness ==
  /\ Called("content_hash") /\ prov.how = "hashed" /\ last.res = prov.first
  /\ obj # prov.base
  /\ obj.py = "dict" /\ Len(obj.kv) = 2
  /\ obj.kv[1][1] = "n" /\ obj.kv[2][2].kv[1][1] = "b"

\* The tag the tests expect for a Python value.
ExpectedTag(v) ==
  CASE v.py = "str" -> "String"
    [] v.py = "int" -> "Int"
    [] v.py = "float" -> "Float"
    [] v.py = "bool" -> "Bool"
    [] v.py = "NoneType" -> "Nil"
    [] v.py = "dict" -> "Dict"
    [] v.py = "list" -> "Array"

\* C20: the Hash Value carries the type tag of the input (True and False
\* are Bool), values of different kinds have different Hash Values, and the
\* Hash Values of '', {} and [] differ pairwise.
C20_HashTypeTag ==
  /\ Called("content_hash") =>
       /\ Val(last.res).tag = ExpectedTag(frame.arg)
       /\ obj.py # prov.base.py => last.res # prov.first
  /\ Cardinality({content_hash(PyStr("")), content_hash(PyOrderedDict(<<>>)),
                  content_hash(PyList(<<>>))}) = 3

C20_Witness ==
  /\ Called("content_hash") /\ prov.how = "other"
  /\ prov.base = PyInt("1") /\ obj = PyBool("True")
  /\ Val(last.res).tag = "Bool" /\ last.res # prov.first

\* C21: create_granule stamps the Granule with the clock value the
\* caller injected, so two calls with the same injected value on equal
\* data, metadata and key return equal results.
C21_InjectableClock ==
  (Called("create_granule") /\ prov.how = "created") =>
     /\ Val(last.res).m["signature_time"] = to_json_like(now(prov.injected))
     /\ prov.same => last.res = prov.prev

KeyPairFields == {"__type", "__uid", "public_key", "private_key"}

\* C22 as stated: every call generate_key_pair(..., unendorsed=True) returns
\* a key pair mapping with __type, __uid, public_key and private_key.
C22_UnendorsedAlways_Original ==
  (Called("generate_key_pair") /\ frame.arg.unendorsed) =>
     /\ IsOk(last.res)
     /\ DOMAIN Val(last.res).m = KeyPairFields

\* C22: a call generate_key_pair(unendorsed=True) that passes neither
\* endorsed_by nor expires_in returns a key pair mapping with exactly
\* __type, __uid, public_key and private_key, all strings; a call that
\* passes either of them, or that leaves unendorsed False, raises
\* NotImplementedError.
C22_UnendorsedAlone ==
  Called("generate_key_pair") =>
     IF frame.arg.unendorsed /\ frame.arg.endorsed_by = PyNone /\ frame.arg.expires_in = PyNone
     THEN /\ IsOk(last.res)
          /\ DOMAIN Val(last.res).m = KeyPairFields
          /\ Val(last.res).m["__type"] = PyStr("ET.Ed25519KeyPair")
          /\ \E i \in KeyIds : Val(last.res) = KeyPair(i)
     ELSE last.res = Raise("NotImplementedError")

C22_Witness ==
  /\ Called("generate_key_pair") /\ frame.arg.unendorsed
  /\ frame.arg.endorsed_by = PyNone /\ frame.arg.expires_in = PyNone
  /\ IsOk(last.res) /\ DOMAIN Val(last.res).m = KeyPairFields

\* What load_key(n) has to return when it mirrors the saves made so far.
LastSaved(n) ==
  IF ResolvedFile(n, prov.env) \in DOMAIN prov.saved
  THEN Ok(prov.saved[ResolvedFile(n, prov.env)].key)
  ELSE Raise("FileNotFoundError")

\* C29: after any sequence of save_key calls, load_key(n) returns the key
\* most recently saved under a name or path that resolves to the same file
\* as n (and finds no file when there was no such save); a save under one
\* resolved path leaves what load_key returns for every other path as it was.
C29_LoadMirrorsSave ==
  /\ \A n \in KeyNames : load_key(obj, n, prov.env) = LastSaved(n)
  /\ Called("load_key") => last.res = LastSaved(frame.arg.name)
  /\ Called("save_key") => RealPath(Val(last.res)) = ResolvedFile(frame.arg.name, prov.env)

\* A key loaded under another name than the one it was saved under, while a
\* different key is on file under a different path.
C29_Witness ==
  /\ Called("load_key") /\ IsOk(last.res)
  /\ prov.saved[ResolvedFile(frame.arg.name, prov.env)].name # frame.arg.name
  /\ \E f \in DOMAIN prov.saved : prov.saved[f].key # Val(last.res)

EndorsementCalls == {"is_endorsed", "get_endorsement_chain"}

\* C23: create_granule, sign_and_embed and verify never call is_endorsed or
\* get_endorsement_chain, which raise NotImplementedError for every key:
\* none of the three ends in NotImplementedError, and verify on a Granule
\* returns the boolean of the signature check on the Granule alone.
C23_VerifyIgnoresTrust ==
  /\ \A i \in KeyIds : /\ is_endorsed(KeyPair(i)) = Raise("NotImplementedError")
                       /\ get_endorsement_chain(KeyPair(i)) = Raise("NotImplementedError")
  /\ last.op \in {"create_granule", "sign_and_embed", "verify"} =>
       /\ last.res.status # "NotImplementedError"
       /\ \A k \in DOMAIN frame.zef : frame.zef[k] \notin EndorsementCalls
  /\ (Called("verify") /\ prov.how = "created") =>
       /\ last.res = Ok(verify_granite_signature(from_json_like(frame.arg)))
       /\ Val(last.res) \in BOOLEAN

C23_Witness ==
  /\ Called("verify") /\ prov.how = "created" /\ frame.arg = obj
  /\ last.res = Ok(TRUE)

\* What an invocation returns when it runs alone on its arguments, with the
\* clock value it read.
Alone(inv) ==
  IF inv.op = "sign_and_embed"
  THEN sign_and_embed(inv.input, inv.meta, inv.key, inv.read)
  ELSE strip_metadata_and_signature(inv.input)

Apply(op, d) ==
  CASE op = "extract_metadata" -> extract_metadata(d)
    [] op = "extract_signature" -> extract_signature(d)
    [] op = "strip_metadata_and_signature" -> strip_metadata_and_signature(d)
    [] op = "verify" -> verify(d)
\* The same container under a format tag that is not supported.
Retagged(d) == PyDict(("type" :> PyStr("gif")) @@ d.m)
ReadOps == {"extract_metadata", "extract_signature", "strip_metadata_and_signature", "verify"}
\* A container of a supported format with nothing embedded and no '__msd' key.
Bare(o) == NeverSigned(o) /\ "__msd" \notin DOMAIN o.m

\* C25 as stated: on a container with nothing embedded, each of
\* extract_metadata, extract_signature, strip_metadata_and_signature and
\* verify fails with an error that differs, as an error value, from the one
\* it fails with when the format tag is unsupported.
C25_DistinctErrors_Original ==
  (last.op \in ReadOps /\ Bare(frame.arg)) =>
     /\ ~IsOk(last.res)
     /\ last.res # Apply(last.op, Retagged(frame.arg))

\* C25, amended: on a container with nothing embedded (and no '__msd' key
\* beside 'type' and 'content'), extract_metadata,
\* extract_signature and verify raise ValueError, the same exception kind
\* they raise for an unsupported format tag, and only the message text
\* tells the two apart; strip_metadata_and_signature raises nothing for
\* such a container and ValueError for an unsupported tag.
C25_SameKind ==
  /\ (last.op \in ReadOps \ {"strip_metadata_and_signature"} /\ Bare(frame.arg)) =>
       /\ last.res = Raise("ValueError")
       /\ Apply(last.op, Retagged(frame.arg)) = Raise("ValueError")
       /\ ValueErrorText(last.op, frame.arg) # ValueErrorText(last.op, Retagged(frame.arg))
  /\ (Called("strip_metadata_and_signature") /\ Bare(frame.arg)) =>
       /\ IsOk(last.res)
       /\ Apply(last.op, Retagged(frame.arg)) = Raise("ValueError")

C25_Witness ==
  /\ Called("extract_signature") /\ Bare(frame.arg)
  /\ last.res = Raise("ValueError")
  /\ extract_signature(Retagged(frame.arg)) = last.res

TaggedGranule(a) == HasKey(a, "__type") /\ StrOf(a.m["__type"]) = "ET.SignedGranule"
FileShaped(a) == HasKey(a, "type") /\ HasKey(a, "content")

\* C26: verify classifies its input by a fixed priority: an input tagged
\* 'ET.SignedGranule' is verified as a Granule even when it also has 'type'
\* and 'content'; any other input is verified as a container exactly when
\* it has both 'type' and 'content'; no input goes down both paths, and an
\* input of neither shape is not verified at all.
C26_VerifyPriority ==
  Called("verify") =>
    /\ TaggedGranule(frame.arg) =>
         /\ last.res = _verify_granule(frame.arg)
         /\ frame.zef = <<"from_json_like", "verify_granite_signature">>
    /\ (~TaggedGranule(frame.arg) /\ FileShaped(frame.arg)) =>
         /\ last.res = _verify_file(frame.arg)
         /\ frame.zef = _verify_file_calls(frame.arg)
         /\ frame.zef # <<"from_json_like", "verify_granite_signature">>
    /\ (~TaggedGranule(frame.arg) /\ ~FileShaped(frame.arg)) =>
         /\ ~IsOk(last.res)
         /\ frame.zef = <<>>

\* A tagged Granule that has 'type' and 'content' as well, for which the
\* two paths give different answers.
C26_Witness ==
  /\ Called("verify") /\ TaggedGranule(frame.arg) /\ FileShaped(frame.arg)
  /\ last.res = Ok(TRUE)
  /\ _verify_file(frame.arg) # last.res

\* The Granule a reader puts together from a signed mapping: the data it
\* takes to be signed, with the metadata and signature fields extracted
\* from '__msd'.
RebuiltGranule(signed, d) ==
  PyDict(("__type" :> PyStr("ET.SignedGranule")) @@ ("data" :> d)
         @@ ("metadata" :> Val(extract_metadata(signed))) @@ Val(extract_signature(signed)).m)
WithoutMsd(signed) == PyDict([k \in DOMAIN signed.m \ {"__msd"} |-> signed.m[k]])

C28_NoVerifyForMappings ==
  (/\ Called("verify") /\ prov.how = "dictsigned"
   /\ CarriesMsd(frame.arg) /\ WithoutMsd(frame.arg) = prov.input
   /\ "__type" \notin DOMAIN prov.input.m
   /\ ~({"type", "content"} \subseteq DOMAIN prov.input.m)) =>
     /\ last.res = Raise("ValueError")
     /\ frame.zef = <<>>

C28_Witness ==
  /\ Called("verify") /\ prov.how = "dictsigned"
  /\ frame.arg = obj /\ CarriesMsd(obj) /\ WithoutMsd(obj) = prov.input
  /\ prov.input = PyDict("type" :> PyStr("png"))
  /\ IsOk(extract_signature(obj))
  /\ last.res = Raise("ValueError")

WorkflowSteps == <<"bump", "check", "clean", "build", "token", "publish">>
StepsDue == IF frame.arg # "" THEN WorkflowSteps ELSE Tail(WorkflowSteps)
Attempted(step) == \E k \in DOMAIN frame.zef : frame.zef[k] = step
\* What PyPI holds for the version the run is about.
OnPyPI == prov.pypi.reachable /\ prov.version \in prov.pypi.versions
Bumped == Attempted("bump") /\ prov.version # prov.start

\* C30: every run of workflow_publish goes through bump (if requested),
\* PyPI check, clean, build, token, publish in this order; publish is
\* attempted only if the check did not find the version on PyPI and the
\* build succeeded; when the check finds the version or the build fails the
\* run exits with status 1 without publishing, and the bumped version
\* stays written in the files.
C30_PublishOrder ==
  /\ Len(frame.zef) <= Len(StepsDue)
  /\ frame.zef = SubSeq(StepsDue, 1, Len(frame.zef))
  /\ Attempted("publish") => (prov.exists # "True" /\ prov.built)
  /\ (Attempted("clean") /\ ~Attempted("publish")) => ~OnPyPI
  /\ (Attempted("check") /\ ~Attempted("clean") /\ OnPyPI) =>
       /\ last = Call("workflow_publish", Raise("SystemExit(1)"))
       /\ prov.pc = "exit"
  /\ (Attempted("build") /\ ~prov.built) =>
       /\ last = Call("workflow_publish", Raise("SystemExit(1)"))
       /\ prov.pc = "exit" /\ ~Attempted("publish")
  /\ Bumped => /\ obj.pyproject = Val(bump_version_str(prov.start, frame.arg))
               /\ obj.init \in {<<>>, obj.pyproject}

\* A run that bumped the version, found the new version on PyPI and exited
\* with 1, the bump still in both files.
C30_Witness ==
  /\ prov.pc = "exit" /\ Bumped /\ prov.exists = "True"
  /\ last = Call("workflow_publish", Raise("SystemExit(1)"))
  /\ frame.zef = <<"bump", "check">>
  /\ obj.pyproject # prov.start /\ obj.init = obj.pyproject

\* A run that went through every step and published.
C30_WitnessPublished ==
  /\ prov.pc = "exit" /\ last = Call("workflow_publish", Ok(PyNone))
  /\ frame.zef = WorkflowSteps

====
